---- MODULE Spec2Model ----
(***************************************************************************)
(* State-machine model of the Prep-Brain dashboard controller              *)
(* (frontend/src/App.jsx): the React state hooks of the App component, the *)
(* asynchronous handlers that read and write them, and the HTTP requests   *)
(* the handlers issue.                                                     *)
(*                                                                         *)
(* JavaScript runs each handler to completion between two awaits, so one   *)
(* action of the model is either the call of a handler up to its first     *)
(* await, or the resumption of a suspended handler with the response of    *)
(* the request it awaits, up to its next await or its end.  A suspended    *)
(* handler is an entry of calls: its position, the values its closure      *)
(* captured at the render it was called from, and the requests it issued.  *)
(***************************************************************************)
EXTENDS Integers, Sequences, FiniteSets, TLC

VARIABLES
    ui,      \* the useState hooks of App (App.jsx 417-468)
    calls   \* the invocations of async handlers: suspended, settled or free

vars == <<ui, calls>>

---------------------------------------------------------------------------
(* Bounds of the model *)

\* number of invocations the operator's actions can have suspended at the same time
MaxCalls == 2

\* further invocations that effects and the poll timer can have suspended
MaxLoads == 1

\* the state keeps the newest MaxLogLen rows of the log buffer
MaxLogLen == 1

\* appendClientLog keeps the first 120 rows
LogCap == 120

Slots == 1..(MaxCalls + MaxLoads)

HandlerSlots == 1..MaxCalls

---------------------------------------------------------------------------
(* Nullable values: null is the empty tuple, a value v is <<v>> *)

Null == <<>>

Some(v) == <<v>>

IsNull(o) == Len(o) = 0

Val(o) == o[1]

---------------------------------------------------------------------------
(* HTTP responses and apiRequest *)

\* a JSON object always carries "status"; every other key is optional
Has(obj, key) == key \in DOMAIN obj

\* payload?.key || fallback   for string-valued keys
StrOr(obj, key, fallback) ==
    IF Has(obj, key) /\ obj[key] # "" THEN obj[key] ELSE fallback

\* JSON values whose type the client inspects or converts
Undefined == [t |-> "undefined"]

JNull == [t |-> "null"]

Bool(b) == [t |-> "boolean", b |-> b]

\* a number, written as String() prints it
Num(text) == [t |-> "number", text |-> text]

Str(text) == [t |-> "string", text |-> text]

Obj(fields) == [t |-> "object", fields |-> fields]

EmptyObj == Obj([k \in {} |-> JNull])

\* v?.key, and v.key for a v that is neither null nor undefined
Get(v, key) ==
    IF v.t = "object" /\ key \in DOMAIN v.fields THEN v.fields[key] ELSE Undefined

Truthy(v) ==
    CASE v.t = "object"  -> TRUE
      [] v.t = "boolean" -> v.b
      [] v.t = "number"  -> v.text \notin {"0", "NaN"}
      [] v.t = "string"  -> v.text # ""
      [] OTHER           -> FALSE

\* v || w
Or(v, w) == IF Truthy(v) THEN v ELSE w

\* v ?? w
Nullish(v, w) == IF v.t \in {"null", "undefined"} THEN w ELSE v

\* String(v)
StringOf(v) ==
    CASE v.t \in {"number", "string"} -> v.text
      [] v.t = "boolean"              -> IF v.b THEN "true" ELSE "false"
      [] v.t = "object"               -> "[object Object]"
      [] OTHER                        -> v.t

\* the message of the TypeError that fetch rejects with when the transport fails
NetworkError == "Failed to fetch"

\* the detail of line 359 for the body of a response that is not ok, and the
\* message of new Error(detail)
errorDetail(payload) ==
    StringOf(IF payload.t = "string" THEN payload
             ELSE Or(Get(payload, "detail"), Or(Get(payload, "message"), Str("Request failed"))))

\* The outcome of `await apiRequest(...)` for a response r:
\*   r.net = FALSE: fetch itself rejected;
\*   r.json: the content type contains application/json, r.body is the parsed
\*   body, a JSON value when the response is not ok;
\*   otherwise r.text is the response text.
apiRequest(r) ==
    IF ~r.net THEN [threw |-> TRUE, message |-> NetworkError]
    ELSE IF ~r.ok
         THEN [threw |-> TRUE,
               message |-> IF ~r.json THEN r.text ELSE errorDetail(r.body)]
         ELSE [threw |-> FALSE, payload |-> IF r.json THEN r.body ELSE r.text]

Resp(net, ok, json, body, text) ==
    [net |-> net, ok |-> ok, json |-> json, body |-> body, text |-> text]

NoBody == [status |-> "none"]

\* responses with which a request fails
FailResponses ==
    { Resp(FALSE, FALSE, FALSE, NoBody, ""),
      Resp(TRUE, FALSE, TRUE, Obj([detail |-> Str("service busy")]), "") }

OkJson(body) == Resp(TRUE, TRUE, TRUE, body, "")

\* 2xx responses of the control endpoints: with a message, with an empty one, without
ControlResponses ==
    { OkJson([status |-> "ok", message |-> "done by server"]),
      OkJson([status |-> "ok", message |-> ""]),
      OkJson([status |-> "ok"]) }

\* status snapshots the API can return (the fields the client branches on)
Status(bot, ollama, processing) ==
    [bot |-> [running |-> bot], ollama |-> [running |-> ollama], processing |-> processing]

defaultStatus == Status(FALSE, FALSE, FALSE)

StatusResponses ==
    { OkJson(Status(TRUE, TRUE, FALSE)), OkJson(Status(FALSE, FALSE, TRUE)) }

\* log pages: a page with one row, an empty page, a payload without items
LogResponses ==
    { OkJson([status |-> "ok", items |-> <<"server row">>]),
      OkJson([status |-> "ok"]) }

\* payload.items || []
ItemsOr(obj, key) == IF Has(obj, key) THEN obj[key] ELSE <<>>

---------------------------------------------------------------------------
(* The flash slot and the client log *)

clearFlash(u) == [u EXCEPT !.error = "", !.notice = ""]

\* an emitError that leaves the notice in place
emitErrorKeepsNotice(u, message) == [u EXCEPT !.error = message]

emitError(u, message) == [u EXCEPT !.error = message, !.notice = ""]

emitNotice(u, message) == [u EXCEPT !.notice = message, !.error = ""]

setProcessingAction(u, b) == [u EXCEPT !.processingAction = b]

\* an appendClientLog without slice(0, 120)
appendClientLogUncapped(u, message) == [u EXCEPT !.logs = <<message>> \o @]

\* [row, ...current].slice(0, 120)
appendClientLog(u, message) ==
    LET rows == <<message>> \o u.logs
    IN  [u EXCEPT !.logs = SubSeq(rows, 1, IF Len(rows) < LogCap THEN Len(rows) ELSE LogCap)]

\* the newest MaxLogLen rows of the log buffer, the part of it the state keeps
Newest(u) ==
    [u EXCEPT !.logs = SubSeq(u.logs, 1, IF Len(u.logs) < MaxLogLen THEN Len(u.logs)
                                         ELSE MaxLogLen)]

isProcessing(u) == u.processingAction \/ u.statusData.processing

---------------------------------------------------------------------------
(* The component state after construction (useState initial values) *)

\* the autonomy status before the first heartbeat (420-428), by the fields shown
defaultAutonomyStatus == [status |-> "Waiting for heartbeat", running |-> FALSE]

\* the data of MenuEngineeringView before its fetch (34), by the fields shown
defaultMenuData == [items |-> << >>, averages |-> [margin |-> 0, count |-> 0]]

\* the hooks of App (417-468), and of its effects the live poll timers, each with
\* the activeTab and logFilter its callback closed over, and whether the
\* component has been torn down; the hooks of MenuEngineeringView (34-35) and
\* of PrepListView (135-136), which App mounts on their tabs (2167, 2181); and
\* the message of an error thrown while rendering, which unmounts the tree
InitUi ==
    [ statusData       |-> defaultStatus,
      logs             |-> <<>>,
      logFilter        |-> "all",
      notice           |-> "",
      error            |-> "",
      processingAction |-> FALSE,
      activeTab        |-> "overview",
      vendors          |-> <<>>,
      editingVendor    |-> Null,
      editingDraft     |-> Null,
      vendorItems      |-> <<>>,
      editingItem      |-> Null,
      activeVendorForItems |-> Null,
      recipes          |-> <<>>,
      editingRecipe    |-> Null,
      knowledge        |-> <<>>,
      uploadFile       |-> Null,
      configData       |-> Null,
      configDraft      |-> Null,
      autonomyStatus   |-> defaultAutonomyStatus,
      autonomyLogs     |-> <<>>,
      sessions         |-> <<>>,
      selectedSessionId |-> Null,
      sessionMessages  |-> <<>>,
      aboutInfo        |-> Null,
      inventorySheets  |-> <<>>,
      audioFile        |-> Null,
      brainAnswer      |-> "",
      transcript       |-> "",
      isCountingMode   |-> FALSE,
      menuData         |-> defaultMenuData,
      menuLoading      |-> FALSE,
      prepRecipes      |-> <<>>,
      prepMode         |-> "audit",
      renderError      |-> "",
      timers           |-> {},
      unmounted        |-> FALSE ]

---------------------------------------------------------------------------
(* Handler invocations *)

Free ==
    [ kind |-> "none", pc |-> "free", arg |-> "", via |-> "", logFilter |-> "",
      sel |-> Null, draft |-> Null, guide |-> Null, payload |-> NoBody, sent |-> Null,
      reqs |-> <<>>, out |-> "", err |-> "" ]

\* a handler called from the render whose state is u, suspended at pc after
\* issuing request req
Suspended(kind, pc, arg, via, u, req) ==
    [ kind |-> kind, pc |-> pc, arg |-> arg, via |-> via, logFilter |-> u.logFilter,
      sel |-> u.selectedSessionId, draft |-> u.editingDraft, guide |-> u.activeVendorForItems, payload |-> NoBody,
      sent |-> Null, reqs |-> <<req>>, out |-> "", err |-> "" ]

\* a handler that ended without ever suspending
Returned(kind, arg, out) ==
    [ kind |-> kind, pc |-> "settled", arg |-> arg, via |-> "", logFilter |-> "",
      sel |-> Null, draft |-> Null, guide |-> Null, payload |-> NoBody, sent |-> Null,
      reqs |-> <<>>, out |-> out, err |-> "" ]

Await(call, pc, req) == [call EXCEPT !.pc = pc, !.reqs = Append(@, req)]

\* a handler that has ended: its closure is gone, what it issued is kept
Settle(call, out) ==
    [call EXCEPT !.pc = "settled", !.out = out, !.logFilter = "", !.sel = Null, !.draft = Null,
                 !.guide = Null, !.payload = NoBody, !.sent = Null]

\* a handler that has ended in its catch block with err.message = message
Caught(call, message) == [Settle(call, "failed") EXCEPT !.err = message]

InFlight(call) == call.pc \notin {"free", "settled"}

Reusable(s) == ~InFlight(calls[s])

CanCall == \E s \in HandlerSlots : Reusable(s)

\* a new invocation takes the lowest slot that holds no suspended handler
NewSlot == CHOOSE s \in HandlerSlots : Reusable(s) /\ \A r \in HandlerSlots : r < s => ~Reusable(r)

FreeSlots == {s \in Slots : Reusable(s)}

\* there is room for n more invocations
Room(n) == Cardinality(FreeSlots) >= n

\* calls after the invocations of the sequence news have started, in this order,
\* in the lowest slots that hold no suspended handler
Start(news) ==
    [s \in Slots |->
        LET rank == Cardinality({t \in FreeSlots : t < s}) + 1
        IN  IF s \in FreeSlots /\ rank <= Len(news) THEN news[rank] ELSE calls[s]]

\* a load function that fetches again when its request has failed
LoadedRetries(call, o) ==
    IF o.threw THEN Await(call, "get", call.reqs[Len(call.reqs)])
    ELSE [Settle(call, "ok") EXCEPT !.payload = o.payload]

\* a load function that has ended: with the payload it wrote, or in its catch block
Loaded(call, o) ==
    IF o.threw THEN Caught(call, o.message)
    ELSE [Settle(call, "ok") EXCEPT !.payload = o.payload]

Init ==
    /\ ui = InitUi
    /\ calls = [s \in Slots |-> Free]

---------------------------------------------------------------------------
(* Requests *)

Req(method, path) == [method |-> method, path |-> path]

GetStatus == Req("GET", "/api/status")

GetLogs(level) == Req("GET", "/api/logs?lines=120&level=" \o level)

PostBot(action) == Req("POST", "/api/control/bot/" \o action)

PostOllama(action) == Req("POST", "/api/control/ollama/" \o action)

PostDraft == Req("POST", "/api/composer/draft")

\* the requests of one method among those a handler issued
Issued(call, method) == SelectSeq(call.reqs, LAMBDA q : q.method = method)

---------------------------------------------------------------------------
(* loadStatus and loadLogs, from the response on *)

\* a loadStatus whose catch block also resets the status slice
loadStatusResetsSlice(u, r) ==
    LET o == apiRequest(r)
    IN  IF o.threw
        THEN [emitError(u, "Status load failed: " \o o.message) EXCEPT !.statusData = defaultStatus]
        ELSE [u EXCEPT !.statusData = o.payload]

\* loadStatus (542-549) after its await
loadStatus(u, r) ==
    LET o == apiRequest(r)
    IN  IF o.threw THEN emitError(u, "Status load failed: " \o o.message)
        ELSE [u EXCEPT !.statusData = o.payload]

\* const level = filterValue || logFilter (570)
logLevel(filterValue, logFilter) == IF filterValue # "" THEN filterValue ELSE logFilter

\* a loadLogs that puts the page before the rows the buffer holds
loadLogsMerges(u, r) ==
    LET o == apiRequest(r)
    IN  IF o.threw THEN emitError(u, "Logs load failed: " \o o.message)
        ELSE [u EXCEPT !.logs = ItemsOr(o.payload, "items") \o @]

\* loadLogs (569-577) after its await
loadLogs(u, r) ==
    LET o == apiRequest(r)
    IN  IF o.threw THEN emitError(u, "Logs load failed: " \o o.message)
        ELSE [u EXCEPT !.logs = ItemsOr(o.payload, "items")]

---------------------------------------------------------------------------
(* Control actions (870-917) *)

ExecuteLogRow == "Execute sequence accepted. Starting local services and restart cycle."

EmergencyLogRow == "Emergency stop command issued. Halting automation."

OverrideLogRow == "Manual override engaged. Operator controlling sequence plan."

\* handleManualOverride (891-894)
handleManualOverride ==
    /\ ui' = Newest(emitNotice(appendClientLog(ui, OverrideLogRow),
                               "Manual override noted in diagnostics."))
    /\ UNCHANGED calls

\* an Execute Sequence that is rejected while the processing flag is up
handleExecuteSequenceUnlessProcessing ==
    /\ ~ui.processingAction
    /\ CanCall
    /\ ui' = Newest(appendClientLog(setProcessingAction(ui, TRUE), ExecuteLogRow))
    /\ calls' = [calls EXCEPT ![NewSlot] =
                    Suspended("handleExecuteSequence", "ollama_start", "", "", ui,
                              PostOllama("start"))]

\* handleExecuteSequence (896-911), up to the first await
handleExecuteSequence ==
    /\ CanCall
    /\ ui' = Newest(appendClientLog(setProcessingAction(ui, TRUE), ExecuteLogRow))
    /\ calls' = [calls EXCEPT ![NewSlot] =
                    Suspended("handleExecuteSequence", "ollama_start", "", "", ui,
                              PostOllama("start"))]

\* a handleExecuteSequence without its finally block
executeSequenceFailedKeepsFlag(u, message) ==
    emitError(u, "Execute sequence failed: " \o message)

\* a handleExecuteSequence that reports a fixed text instead of err.message
executeSequenceFailedGeneric(u, message) ==
    setProcessingAction(emitError(u, "Execute sequence failed: Request failed"), FALSE)

\* the catch and the finally of handleExecuteSequence (906-910)
executeSequenceFailed(u, message) ==
    setProcessingAction(emitError(u, "Execute sequence failed: " \o message), FALSE)

\* an Execute Sequence that keeps the error a failed reload has raised
executeSequenceCompletedUnlessError(u) ==
    setProcessingAction(IF u.error # "" THEN u ELSE emitNotice(u, "Execute sequence completed."),
                        FALSE)

\* the rest of the try block after the last await, and the finally (905, 909)
executeSequenceCompleted(u) ==
    setProcessingAction(emitNotice(u, "Execute sequence completed."), FALSE)

\* what handleExecuteSequence issues once POST ollama/start has resolved (902)
executeSecondStep == PostBot("restart")

\* handleExecuteSequence resumed with the response r of the request it awaits
handleExecuteSequenceResume(s, r) ==
    LET c == calls[s]
        o == apiRequest(r)
    IN  /\ c.kind = "handleExecuteSequence"
        /\ \/ /\ c.pc = "ollama_start"
              /\ r \in ControlResponses \cup FailResponses
              /\ IF o.threw
                 THEN /\ ui' = executeSequenceFailed(ui, o.message)
                      /\ calls' = [calls EXCEPT ![s] = Caught(c, o.message)]
                 ELSE /\ ui' = ui
                      /\ calls' = [calls EXCEPT ![s] = Await(c, "bot_restart", executeSecondStep)]
           \/ /\ c.pc = "bot_restart"
              /\ r \in ControlResponses \cup FailResponses
              /\ IF o.threw
                 THEN /\ ui' = executeSequenceFailed(ui, o.message)
                      /\ calls' = [calls EXCEPT ![s] = Caught(c, o.message)]
                 ELSE /\ ui' = ui
                      /\ calls' = [calls EXCEPT ![s] = Await(c, "loadStatus", GetStatus)]
           \/ /\ c.pc = "loadStatus"
              /\ r \in StatusResponses \cup FailResponses
              /\ ui' = loadStatus(ui, r)
              /\ calls' = [calls EXCEPT ![s] =
                              Await(c, "loadLogs", GetLogs(logLevel(c.logFilter, c.logFilter)))]
           \/ /\ c.pc = "loadLogs"
              /\ r \in LogResponses \cup FailResponses
              /\ ui' = executeSequenceCompleted(loadLogs(ui, r))
              /\ calls' = [calls EXCEPT ![s] = Settle(c, "ok")]

\* controlBot (870-879), up to the first await, called from the render whose state is u
controlBotCall(u, action, via) ==
    Suspended("controlBot", "post", action, via, u, PostBot(action))

\* the bot switch and the RESTART BOT button (1185, 1196)
controlBot(action) ==
    /\ CanCall
    /\ ui.activeTab = "overview"
    /\ action \in {IF ui.statusData.bot.running THEN "stop" ELSE "start", "restart"}
    /\ calls' = [calls EXCEPT ![NewSlot] = controlBotCall(ui, action, "")]
    /\ UNCHANGED ui

\* an Emergency Stop that leaves the processing flag alone
emergencyStopKeepsFlag(u) == appendClientLog(u, EmergencyLogRow)

\* the two statements of handleEmergencyStop before controlBot('stop') (914-915)
emergencyStopFirst(u) == appendClientLog(setProcessingAction(u, FALSE), EmergencyLogRow)

\* handleEmergencyStop (913-917), up to the await inside controlBot('stop')
handleEmergencyStop ==
    /\ CanCall
    /\ ui' = Newest(emergencyStopFirst(ui))
    /\ calls' = [calls EXCEPT ![NewSlot] = controlBotCall(ui, "stop", "handleEmergencyStop")]

\* a controlBot that ignores the server's message
botNoticeIgnoresMessage(payload, action) == "Bot " \o action \o " executed."

\* emitNotice(payload.message || `Bot ${action} executed.`) (875)
botNotice(payload, action) == StrOr(payload, "message", "Bot " \o action \o " executed.")

\* a controlBot that ends after its POST without reloading
controlBotAfterPostNoReload(c) == Settle(c, "ok")

\* what controlBot does when its POST has resolved (873): it calls loadStatus
controlBotAfterPost(c) == Await(c, "loadStatus", GetStatus)

\* controlBot resumed with the response r of the request it awaits
controlBotResume(s, r) ==
    LET c == calls[s]
        o == apiRequest(r)
    IN  /\ c.kind = "controlBot"
        /\ \/ /\ c.pc = "post"
              /\ r \in ControlResponses \cup FailResponses
              /\ IF o.threw
                 THEN /\ ui' = emitError(ui, "Bot " \o c.arg \o " failed: " \o o.message)
                      /\ calls' = [calls EXCEPT ![s] = Caught(c, o.message)]
                 ELSE /\ ui' = ui
                      /\ calls' = [calls EXCEPT ![s] =
                                      [controlBotAfterPost(c) EXCEPT !.payload = o.payload]]
           \/ /\ c.pc = "loadStatus"
              /\ r \in StatusResponses \cup FailResponses
              /\ ui' = loadStatus(ui, r)
              /\ calls' = [calls EXCEPT ![s] =
                              Await(c, "loadLogs", GetLogs(logLevel(c.logFilter, c.logFilter)))]
           \/ /\ c.pc = "loadLogs"
              /\ r \in LogResponses \cup FailResponses
              /\ ui' = emitNotice(loadLogs(ui, r), botNotice(c.payload, c.arg))
              /\ calls' = [calls EXCEPT ![s] = Settle(c, "ok")]

\* the Ollama switch (1191): controlOllama (881-889) up to the first await
controlOllama(action) ==
    /\ CanCall
    /\ ui.activeTab = "overview"
    /\ action = (IF ui.statusData.ollama.running THEN "stop" ELSE "start")
    /\ calls' = [calls EXCEPT ![NewSlot] =
                    Suspended("controlOllama", "post", action, "", ui, PostOllama(action))]
    /\ UNCHANGED ui

\* emitNotice(payload.message || `Ollama ${action} executed.`) (885)
ollamaNotice(payload, action) == StrOr(payload, "message", "Ollama " \o action \o " executed.")

\* controlOllama resumed with the response r of the request it awaits
controlOllamaResume(s, r) ==
    LET c == calls[s]
        o == apiRequest(r)
    IN  /\ c.kind = "controlOllama"
        /\ \/ /\ c.pc = "post"
              /\ r \in ControlResponses \cup FailResponses
              /\ IF o.threw
                 THEN /\ ui' = emitError(ui, "Ollama " \o c.arg \o " failed: " \o o.message)
                      /\ calls' = [calls EXCEPT ![s] = Caught(c, o.message)]
                 ELSE /\ ui' = ui
                      /\ calls' = [calls EXCEPT ![s] =
                                      [Await(c, "loadStatus", GetStatus) EXCEPT !.payload = o.payload]]
           \/ /\ c.pc = "loadStatus"
              /\ r \in StatusResponses \cup FailResponses
              /\ ui' = emitNotice(loadStatus(ui, r), ollamaNotice(c.payload, c.arg))
              /\ calls' = [calls EXCEPT ![s] = Settle(c, "ok")]

---------------------------------------------------------------------------
(* Tabs and list loads *)

\* { ...a, ...b }
Spread(a, b) == [k \in DOMAIN a \cup DOMAIN b |-> IF k \in DOMAIN b THEN b[k] ELSE a[k]]

\* a row of a list: vendors, vendor items, recipes and knowledge sources
Entity(id, name) == [id |-> id, name |-> name]

\* the ids the API gives its rows
EntityIds == {0, 1}

VendorResponses ==
    { OkJson([status |-> "ok", items |-> <<Entity(0, "Acme Produce"), Entity(1, "Blue Fish")>>]) }

\* a vendor list of one row
ShortVendorResponses ==
    { OkJson([status |-> "ok", items |-> <<Entity(1, "Blue Fish")>>]) }

GetVendors == Req("GET", "/api/vendors")

GetKnowledge == Req("GET", "/api/knowledge")

GetRecipes == Req("GET", "/api/recipes")

GetVendorItems(vendorId) == Req("GET", "/api/vendors/" \o ToString(vendorId) \o "/items")

GetConfig == Req("GET", "/api/config")

GetAutonomyStatus == Req("GET", "/api/autonomy/status")

GetAutonomyLogs == Req("GET", "/api/autonomy/logs")

GetSessions == Req("GET", "/api/sessions")

GetSessionMessages(sessionId) ==
    Req("GET", "/api/sessions/" \o ToString(sessionId) \o "/messages?limit=10")

GetInventorySheets == Req("GET", "/api/inventory/sheets")

GetAbout == Req("GET", "/api/system/info")

---------------------------------------------------------------------------
(* The effects of App (644-663, 836-868) *)

\* a load function called from the render whose state is u, up to its await
Load(kind, arg, via, u, req) == Suspended(kind, "get", arg, via, u, req)

\* the interval callback the poll effect installs (651-660) closes over the
\* activeTab and logFilter of its render
Timer(u) == [activeTab |-> u.activeTab, logFilter |-> u.logFilter]

\* the effect on [loadLogs, loadStatus] (644-648): loadStatus(), loadLogs('all')
mountEffect(u) ==
    << Load("loadStatus", "", "effect", u, GetStatus),
       Load("loadLogs", "all", "effect", u, GetLogs(logLevel("all", u.logFilter))) >>

\* the effect on activeTab and the load callbacks (836-862)
tabEffect(u) ==
    CASE u.activeTab = "autonomy" ->
            << Load("loadAutonomyStatus", "", "effect", u, GetAutonomyStatus),
               Load("loadAutonomyLogs", "", "effect", u, GetAutonomyLogs) >>
      [] u.activeTab = "sessions"  -> << Load("loadSessions", "", "effect", u, GetSessions) >>
      [] u.activeTab = "knowledge" -> << Load("loadKnowledge", "", "effect", u, GetKnowledge) >>
      [] u.activeTab = "vendors"   -> << Load("loadVendors", "", "effect", u, GetVendors) >>
      [] u.activeTab = "inventory" ->
            << Load("loadInventorySheets", "", "effect", u, GetInventorySheets) >>
      [] u.activeTab = "recipes"   -> << Load("loadRecipes", "", "effect", u, GetRecipes) >>
      [] u.activeTab = "settings"  -> << Load("loadConfig", "", "effect", u, GetConfig) >>
      [] u.activeTab = "about"     -> << Load("loadAbout", "", "effect", u, GetAbout) >>
      [] OTHER -> << >>

\* the effect on [activeTab, selectedSessionId] (864-868)
sessionEffect(u) ==
    IF u.activeTab = "sessions" /\ ~IsNull(u.selectedSessionId)
    THEN << Load("loadSessionMessages", ToString(Val(u.selectedSessionId)), "effect", u,
                 GetSessionMessages(Val(u.selectedSessionId))) >>
    ELSE << >>

\* loadLogs is a new callback when logFilter has changed (577), loadSessions
\* when selectedSessionId has changed (590)
loadLogsChanged(old, new) == old.logFilter # new.logFilter

loadSessionsChanged(old, new) == old.selectedSessionId # new.selectedSessionId

tabChanged(old, new) == old.activeTab # new.activeTab

\* the cleanup of the poll effect (662) and its next run (651-660)
reinstall(timers, u) == {Timer(u)}

\* the poll effect (650-663) after a render, once it has installed a timer
pollEffect(old, new) ==
    IF old.timers # {} /\ (tabChanged(old, new) \/ loadLogsChanged(old, new))
    THEN reinstall(old.timers, new)
    ELSE old.timers

GetMenuEngineering == Req("GET", "/api/menu-engineering")

PostPrepUpdate == Req("POST", "/api/prep-update")

\* the mount effects of the view that App renders on the tab (2167, 2181):
\* of MenuEngineeringView (37-43) and of PrepListView (138-142); a child's
\* effects run before those of App
viewEffect(u) ==
    CASE u.activeTab = "menu-engineering" ->
            << Load("MenuEngineeringView", "", "effect", u, GetMenuEngineering) >>
      [] u.activeTab = "prep-list" ->
            << Load("PrepListView.loadData", "", "effect", u, GetRecipes) >>
      [] OTHER -> << >>

\* a view mounted on a tab change starts from its initial hooks (34-35,
\* 135-136), and the effect of MenuEngineeringView sets loading (38)
viewState(u) ==
    [u EXCEPT !.menuData = defaultMenuData,
              !.menuLoading = (u.activeTab = "menu-engineering"),
              !.prepRecipes = <<>>,
              !.prepMode = "audit"]

\* the load functions that the effects call, in the order of their
\* declaration, after the render that replaced state old by state new
effectLoads(old, new) ==
    (IF tabChanged(old, new) THEN viewEffect(new) ELSE << >>)
    \o (IF loadLogsChanged(old, new) THEN mountEffect(new) ELSE << >>)
    \o (IF tabChanged(old, new) \/ loadSessionsChanged(old, new) THEN tabEffect(new) ELSE << >>)
    \o (IF tabChanged(old, new) \/ loadSessionsChanged(old, new) THEN sessionEffect(new) ELSE << >>)

\* the state after those effects: clearFlash() of the first effect, and the timer
effectState(old, new) ==
    LET viewed == IF tabChanged(old, new) THEN viewState(new) ELSE new
    IN  [ (IF loadLogsChanged(old, new) THEN clearFlash(viewed) ELSE viewed)
            EXCEPT !.timers = pollEffect(old, new) ]

\* a handler sets the state to new after starting the invocations first, the
\* component renders, and the effects run
Render(new, first) ==
    /\ Room(Len(first \o effectLoads(ui, new)))
    /\ calls' = Start(first \o effectLoads(ui, new))
    /\ ui' = effectState(ui, new)

\* a tab button (1098-1114): clearFlash, setActiveTab, and after the render the
\* effects on activeTab, which run only when the tab has changed
selectTab(tab) == Render([clearFlash(ui) EXCEPT !.activeTab = tab], << >>)

\* the operator leaves the overview for one of the list tabs and works there
visitTab(tab) ==
    /\ ui.activeTab = "overview"
    /\ CanCall
    /\ selectTab(tab)

\* loadVendors (665-672) after its await
loadVendors(u, r) ==
    LET o == apiRequest(r)
    IN  IF o.threw THEN emitError(u, "Vendors load failed: " \o o.message)
        ELSE [u EXCEPT !.vendors = ItemsOr(o.payload, "items")]

loadVendorsResume(s, r) ==
    /\ calls[s].kind = "loadVendors"
    /\ calls[s].pc = "get"
    /\ ui' = loadVendors(ui, r)
    /\ calls' = [calls EXCEPT ![s] = Loaded(calls[s], apiRequest(r))]

---------------------------------------------------------------------------
(* The email composer (705-731, 1372, 1524-1565) *)

\* the vendor list is shown (1348)
VendorListShown(u) ==
    /\ u.activeTab = "vendors"
    /\ IsNull(u.editingVendor) /\ IsNull(u.editingDraft) /\ IsNull(u.activeVendorForItems)

\* the Compose Email button of a vendor row (1372)
openComposer(i) ==
    /\ VendorListShown(ui)
    /\ i \in 1..Len(ui.vendors)
    /\ ui' = [ui EXCEPT !.editingDraft =
                 Some([ vendorId |-> ui.vendors[i].id, vendorName |-> ui.vendors[i].name,
                        context |-> "", subject |-> "", body |-> "" ])]
    /\ UNCHANGED calls

ComposerShown(u) == u.activeTab = "vendors" /\ ~IsNull(u.editingDraft)

\* typing in the context box (1553)
editDraftContext(text) ==
    /\ ComposerShown(ui)
    /\ ui' = [ui EXCEPT !.editingDraft = Some(Spread(Val(@), [context |-> text]))]
    /\ UNCHANGED calls

\* CANCEL of the composer (1538)
cancelComposer ==
    /\ ComposerShown(ui)
    /\ ui' = [ui EXCEPT !.editingDraft = Null]
    /\ UNCHANGED calls

\* if (!editingDraft || !editingDraft.context) (706)
draftInputMissing(u) == IsNull(u.editingDraft) \/ Val(u.editingDraft).context = ""

\* a generateDraft that raises the processing flag before it validates
generateDraftInvalidRaisesFlag(u) ==
    setProcessingAction(emitError(u, "Please enter order details first."), TRUE)

\* the validation failure of generateDraft (707-708)
generateDraftInvalid(u) == emitError(u, "Please enter order details first.")

\* the catch and the finally of generateDraft (727, 729)
generateDraftFailed(u, message) ==
    setProcessingAction(emitError(u, "Draft generation failed: " \o message), FALSE)

\* the try block of generateDraft after the await, and the finally (719-725, 729):
\* the draft written is the one the closure captured
generateDraftDone(u, captured, payload) ==
    LET next == Spread(captured, [ subject |-> payload.subject, body |-> payload.body,
                                   vendorEmail |-> payload.vendor_email ])
    IN  setProcessingAction(emitNotice([u EXCEPT !.editingDraft = Some(next)],
                                       "Draft generated."), FALSE)

\* GENERATE DRAFT (1558-1559): generateDraft (705-731) up to its return or its await
generateDraft ==
    /\ ComposerShown(ui)
    /\ ~isProcessing(ui)
    /\ CanCall
    /\ IF draftInputMissing(ui)
       THEN /\ ui' = generateDraftInvalid(ui)
            /\ calls' = [calls EXCEPT ![NewSlot] = Returned("generateDraft", "", "invalid")]
       ELSE /\ ui' = setProcessingAction(ui, TRUE)
            /\ calls' = [calls EXCEPT ![NewSlot] =
                            Suspended("generateDraft", "post", "", "", ui, PostDraft)]

DraftResponses ==
    { OkJson([ status |-> "ok", subject |-> "Order for Friday", body |-> "Please deliver.",
               vendor_email |-> "orders@acme.test" ]) }

generateDraftResume(s, r) ==
    LET c == calls[s]
        o == apiRequest(r)
    IN  /\ c.kind = "generateDraft"
        /\ c.pc = "post"
        /\ IF o.threw
           THEN /\ ui' = generateDraftFailed(ui, o.message)
                /\ calls' = [calls EXCEPT ![s] = Caught(c, o.message)]
           ELSE /\ ui' = generateDraftDone(ui, Val(c.draft), o.payload)
                /\ calls' = [calls EXCEPT ![s] = Settle(c, "ok")]

---------------------------------------------------------------------------
(* Knowledge sources (605-612, 934-980) *)

Source(id, name, status) == [id |-> id, name |-> name, status |-> status]

KnowledgeResponses ==
    { OkJson([status |-> "ok", items |-> <<Source(1, "menu.pdf", "active")>>]),
      OkJson([status |-> "ok", items |-> <<Source(1, "menu.pdf", "disabled")>>]) }

UploadResponses == { OkJson([status |-> "ok", num_chunks |-> 12, source_title |-> "menu.pdf"]) }

\* 2xx responses whose payload the handler does not read
DoneResponses == { OkJson([status |-> "ok"]) }

\* loadKnowledge (605-612) after its await
loadKnowledge(u, r) ==
    LET o == apiRequest(r)
    IN  IF o.threw THEN emitError(u, "Knowledge load failed: " \o o.message)
        ELSE [u EXCEPT !.knowledge = ItemsOr(o.payload, "items")]

loadKnowledgeResume(s, r) ==
    /\ calls[s].kind = "loadKnowledge"
    /\ calls[s].pc = "get"
    /\ ui' = loadKnowledge(ui, r)
    /\ calls' = [calls EXCEPT ![s] = Loaded(calls[s], apiRequest(r))]

\* the file input of the knowledge tab (2204)
selectUploadFile(file) ==
    /\ ui.activeTab = "knowledge"
    /\ ui' = [ui EXCEPT !.uploadFile = file]
    /\ UNCHANGED calls

\* if (!uploadFile) (959)
uploadInputMissing(u) == IsNull(u.uploadFile)

PostUpload == Req("POST", "/api/knowledge/upload")

\* uploadKnowledgeSource (958-980) up to its return or its first await
uploadKnowledgeSource ==
    /\ ui.activeTab = "knowledge"
    /\ CanCall
    /\ IF uploadInputMissing(ui)
       THEN /\ ui' = emitError(ui, "Select a file before ingestion.")
            /\ calls' = [calls EXCEPT ![NewSlot] = Returned("uploadKnowledgeSource", "", "invalid")]
       ELSE /\ ui' = ui
            /\ calls' = [calls EXCEPT ![NewSlot] =
                            [Suspended("uploadKnowledgeSource", "mutate", "", "", ui, PostUpload)
                                EXCEPT !.sent = ui.uploadFile]]

\* an upload that ends without refetching the list
uploadedNoRefetch(c) == Settle(c, "ok")

\* await loadKnowledge() after a successful upload (976)
uploaded(c) == Await(c, "refetch", GetKnowledge)

uploadKnowledgeSourceResume(s, r) ==
    LET c == calls[s]
        o == apiRequest(r)
    IN  /\ c.kind = "uploadKnowledgeSource"
        /\ \/ /\ c.pc = "mutate"
              /\ r \in UploadResponses \cup FailResponses
              /\ IF o.threw
                 THEN /\ ui' = emitError(ui, "Ingestion failed: " \o o.message)
                      /\ calls' = [calls EXCEPT ![s] = Caught(c, o.message)]
                 ELSE /\ ui' = [emitNotice(ui, "Ingested " \o ToString(o.payload.num_chunks)
                                               \o " chunks from " \o o.payload.source_title \o ".")
                                   EXCEPT !.uploadFile = Null]
                      /\ calls' = [calls EXCEPT ![s] = uploaded(c)]
           \/ /\ c.pc = "refetch"
              /\ r \in KnowledgeResponses \cup FailResponses
              /\ ui' = loadKnowledge(ui, r)
              /\ calls' = [calls EXCEPT ![s] = Settle(c, "ok")]

\* the enable/disable button of a source row (2293): toggleKnowledgeSource (934-946)
toggleKnowledgeSource(i) ==
    /\ ui.activeTab = "knowledge"
    /\ i \in 1..Len(ui.knowledge)
    /\ CanCall
    /\ LET source == ui.knowledge[i]
           active == source.status # "active"
       IN  calls' = [calls EXCEPT ![NewSlot] =
                        [Suspended("toggleKnowledgeSource", "mutate",
                                   IF active THEN "enabled" ELSE "disabled", "", ui,
                                   Req("POST", "/api/knowledge/" \o ToString(source.id) \o "/toggle"))
                            EXCEPT !.sent = Some([active |-> active])]]
    /\ UNCHANGED ui

toggleKnowledgeSourceResume(s, r) ==
    LET c == calls[s]
        o == apiRequest(r)
    IN  /\ c.kind = "toggleKnowledgeSource"
        /\ \/ /\ c.pc = "mutate"
              /\ r \in DoneResponses \cup FailResponses
              /\ IF o.threw
                 THEN /\ ui' = emitError(ui, "Toggle source failed: " \o o.message)
                      /\ calls' = [calls EXCEPT ![s] = Caught(c, o.message)]
                 ELSE /\ ui' = ui
                      /\ calls' = [calls EXCEPT ![s] = Await(c, "refetch", GetKnowledge)]
           \/ /\ c.pc = "refetch"
              /\ r \in KnowledgeResponses \cup FailResponses
              /\ ui' = emitNotice(loadKnowledge(ui, r), "Source " \o c.arg \o ".")
              /\ calls' = [calls EXCEPT ![s] = Settle(c, "ok")]

\* the remove button of a source row (2301): deleteKnowledgeSource (948-956)
deleteKnowledgeSource(i) ==
    /\ ui.activeTab = "knowledge"
    /\ i \in 1..Len(ui.knowledge)
    /\ CanCall
    /\ calls' = [calls EXCEPT ![NewSlot] =
                    Suspended("deleteKnowledgeSource", "mutate", "", "", ui,
                              Req("DELETE", "/api/knowledge/" \o ToString(ui.knowledge[i].id)))]
    /\ UNCHANGED ui

deleteKnowledgeSourceResume(s, r) ==
    LET c == calls[s]
        o == apiRequest(r)
    IN  /\ c.kind = "deleteKnowledgeSource"
        /\ \/ /\ c.pc = "mutate"
              /\ r \in DoneResponses \cup FailResponses
              /\ IF o.threw
                 THEN /\ ui' = emitError(ui, "Delete source failed: " \o o.message)
                      /\ calls' = [calls EXCEPT ![s] = Caught(c, o.message)]
                 ELSE /\ ui' = ui
                      /\ calls' = [calls EXCEPT ![s] = Await(c, "refetch", GetKnowledge)]
           \/ /\ c.pc = "refetch"
              /\ r \in KnowledgeResponses \cup FailResponses
              /\ ui' = emitNotice(loadKnowledge(ui, r), "Source removed successfully.")
              /\ calls' = [calls EXCEPT ![s] = Settle(c, "ok")]

---------------------------------------------------------------------------
(* Vendors, order guides and recipes (665-703, 746-834) *)

\* const isNew = !entity.id (676, 758, 807): no id key, or a falsy id
isNew(entity) == ~Has(entity, "id") \/ entity.id = 0

\* the url and the method of a save (677-678, 759-760, 808-809)
saveRequest(entity, collection, member) ==
    IF isNew(entity) THEN Req("POST", collection)
    ELSE Req("PUT", member \o ToString(entity.id))

\* the object the NEW/ADD buttons put in an editor (1354, 1437, 1817): it has no id
Blank == [name |-> ""]

ItemResponses ==
    { OkJson([status |-> "ok", items |-> <<Entity(0, "Lemons"), Entity(1, "Salmon")>>]) }

\* /api/recipes answers with the key recipes
RecipeResponses ==
    { OkJson([status |-> "ok", recipes |-> <<Entity(0, "Stock"), Entity(1, "Aioli")>>]) }

\* NEW VENDOR (1354)
newVendor ==
    /\ VendorListShown(ui)
    /\ ui' = [ui EXCEPT !.editingVendor = Some(Blank)]
    /\ UNCHANGED calls

\* the edit button of a vendor row (1388)
editVendor(i) ==
    /\ VendorListShown(ui)
    /\ i \in 1..Len(ui.vendors)
    /\ ui' = [ui EXCEPT !.editingVendor = Some(ui.vendors[i])]
    /\ UNCHANGED calls

VendorEditorShown(u) == u.activeTab = "vendors" /\ ~IsNull(u.editingVendor)

\* CANCEL of the vendor editor (1606)
cancelVendor ==
    /\ VendorEditorShown(ui)
    /\ ui' = [ui EXCEPT !.editingVendor = Null]
    /\ UNCHANGED calls

\* the submit of the vendor form (1616): saveVendor (674-692) up to its first await
saveVendor ==
    /\ VendorEditorShown(ui)
    /\ CanCall
    /\ LET vendor == Val(ui.editingVendor)
       IN  calls' = [calls EXCEPT ![NewSlot] =
                        [Suspended("saveVendor", "mutate",
                                   IF isNew(vendor) THEN "created" ELSE "updated", "", ui,
                                   saveRequest(vendor, "/api/vendors", "/api/vendors/"))
                            EXCEPT !.sent = Some(vendor)]]
    /\ UNCHANGED ui

\* a saveVendor whose catch block also closes the editor
saveVendorFailedClosesEditor(u, message) ==
    [emitError(u, "Save vendor failed: " \o message) EXCEPT !.editingVendor = Null]

\* the catch block of saveVendor (689-690)
saveVendorFailed(u, message) == emitError(u, "Save vendor failed: " \o message)

saveVendorResume(s, r) ==
    LET c == calls[s]
        o == apiRequest(r)
    IN  /\ c.kind = "saveVendor"
        /\ \/ /\ c.pc = "mutate"
              /\ r \in DoneResponses \cup FailResponses
              /\ IF o.threw
                 THEN /\ ui' = saveVendorFailed(ui, o.message)
                      /\ calls' = [calls EXCEPT ![s] = Caught(c, o.message)]
                 ELSE /\ ui' = ui
                      /\ calls' = [calls EXCEPT ![s] = Await(c, "refetch", GetVendors)]
           \/ /\ c.pc = "refetch"
              /\ r \in VendorResponses \cup FailResponses
              /\ ui' = emitNotice([loadVendors(ui, r) EXCEPT !.editingVendor = Null],
                                  "Vendor " \o c.arg \o ".")
              /\ calls' = [calls EXCEPT ![s] = Settle(c, "ok")]

\* the delete button of a vendor row (1391): deleteVendor (694-703); confirmed is
\* the answer to the confirm dialog
deleteVendor(i, confirmed) ==
    /\ VendorListShown(ui)
    /\ i \in 1..Len(ui.vendors)
    /\ CanCall
    /\ IF confirmed
       THEN calls' = [calls EXCEPT ![NewSlot] =
                         Suspended("deleteVendor", "mutate", "", "", ui,
                                   Req("DELETE", "/api/vendors/" \o ToString(ui.vendors[i].id)))]
       ELSE UNCHANGED calls
    /\ UNCHANGED ui

deleteVendorResume(s, r) ==
    LET c == calls[s]
        o == apiRequest(r)
    IN  /\ c.kind = "deleteVendor"
        /\ \/ /\ c.pc = "mutate"
              /\ r \in DoneResponses \cup FailResponses
              /\ IF o.threw
                 THEN /\ ui' = emitError(ui, "Delete vendor failed: " \o o.message)
                      /\ calls' = [calls EXCEPT ![s] = Caught(c, o.message)]
                 ELSE /\ ui' = ui
                      /\ calls' = [calls EXCEPT ![s] = Await(c, "refetch", GetVendors)]
           \/ /\ c.pc = "refetch"
              /\ r \in VendorResponses \cup FailResponses
              /\ ui' = emitNotice(loadVendors(ui, r), "Vendor deleted.")
              /\ calls' = [calls EXCEPT ![s] = Settle(c, "ok")]

\* loadVendorItems (746-753) after its await
loadVendorItems(u, r) ==
    LET o == apiRequest(r)
    IN  IF o.threw THEN emitError(u, "Items load failed: " \o o.message)
        ELSE [u EXCEPT !.vendorItems = ItemsOr(o.payload, "items")]

\* the Order Guide button of a vendor row (1379-1382)
openOrderGuide(i) ==
    /\ VendorListShown(ui)
    /\ i \in 1..Len(ui.vendors)
    /\ CanCall
    /\ ui' = [ui EXCEPT !.activeVendorForItems = Some(ui.vendors[i])]
    /\ calls' = [calls EXCEPT ![NewSlot] =
                    Suspended("loadVendorItems", "get", "", "", ui,
                              GetVendorItems(ui.vendors[i].id))]

loadVendorItemsResume(s, r) ==
    /\ calls[s].kind = "loadVendorItems"
    /\ calls[s].pc = "get"
    /\ ui' = loadVendorItems(ui, r)
    /\ calls' = [calls EXCEPT ![s] = Loaded(calls[s], apiRequest(r))]

OrderGuideShown(u) == u.activeTab = "vendors" /\ ~IsNull(u.activeVendorForItems)

\* CLOSE of the order guide (1423-1426)
closeOrderGuide ==
    /\ OrderGuideShown(ui)
    /\ ui' = [ui EXCEPT !.activeVendorForItems = Null, !.editingItem = Null]
    /\ UNCHANGED calls

\* ADD ITEM (1437)
newItem ==
    /\ OrderGuideShown(ui)
    /\ IsNull(ui.editingItem)
    /\ ui' = [ui EXCEPT !.editingItem = Some(Blank)]
    /\ UNCHANGED calls

\* the edit button of an item row (1455)
editItem(i) ==
    /\ OrderGuideShown(ui)
    /\ IsNull(ui.editingItem)
    /\ i \in 1..Len(ui.vendorItems)
    /\ ui' = [ui EXCEPT !.editingItem = Some(ui.vendorItems[i])]
    /\ UNCHANGED calls

\* CANCEL of the item form (1515)
cancelItem ==
    /\ OrderGuideShown(ui)
    /\ ~IsNull(ui.editingItem)
    /\ ui' = [ui EXCEPT !.editingItem = Null]
    /\ UNCHANGED calls

\* the submit of the item form (1469): saveVendorItem (755-774) up to its first
\* await; the form is rendered inside the order guide, so activeVendorForItems
\* of its closure is never null and the return of line 756 is not taken
saveVendorItem ==
    /\ OrderGuideShown(ui)
    /\ ~IsNull(ui.editingItem)
    /\ CanCall
    /\ LET item == Val(ui.editingItem)
           guide == Val(ui.activeVendorForItems)
       IN  calls' = [calls EXCEPT ![NewSlot] =
                        [Suspended("saveVendorItem", "mutate",
                                   IF isNew(item) THEN "added" ELSE "updated", "", ui,
                                   saveRequest(item,
                                               "/api/vendors/" \o ToString(guide.id) \o "/items",
                                               "/api/vendors/items/"))
                            EXCEPT !.sent = Some(item)]]
    /\ UNCHANGED ui

saveVendorItemResume(s, r) ==
    LET c == calls[s]
        o == apiRequest(r)
    IN  /\ c.kind = "saveVendorItem"
        /\ \/ /\ c.pc = "mutate"
              /\ r \in DoneResponses \cup FailResponses
              /\ IF o.threw
                 THEN /\ ui' = emitError(ui, "Save item failed: " \o o.message)
                      /\ calls' = [calls EXCEPT ![s] = Caught(c, o.message)]
                 ELSE /\ ui' = ui
                      /\ calls' = [calls EXCEPT ![s] =
                                      Await(c, "refetch", GetVendorItems(Val(c.guide).id))]
           \/ /\ c.pc = "refetch"
              /\ r \in ItemResponses \cup FailResponses
              /\ ui' = emitNotice([loadVendorItems(ui, r) EXCEPT !.editingItem = Null],
                                  "Item " \o c.arg \o ".")
              /\ calls' = [calls EXCEPT ![s] = Settle(c, "ok")]

\* the delete button of an item row (1456): deleteVendorItem (776-785)
deleteVendorItem(i, confirmed) ==
    /\ OrderGuideShown(ui)
    /\ IsNull(ui.editingItem)
    /\ i \in 1..Len(ui.vendorItems)
    /\ CanCall
    /\ IF confirmed
       THEN calls' = [calls EXCEPT ![NewSlot] =
                         Suspended("deleteVendorItem", "mutate", "", "", ui,
                                   Req("DELETE", "/api/vendors/items/"
                                                 \o ToString(ui.vendorItems[i].id)))]
       ELSE UNCHANGED calls
    /\ UNCHANGED ui

deleteVendorItemResume(s, r) ==
    LET c == calls[s]
        o == apiRequest(r)
    IN  /\ c.kind = "deleteVendorItem"
        /\ \/ /\ c.pc = "mutate"
              /\ r \in DoneResponses \cup FailResponses
              /\ IF o.threw
                 THEN /\ ui' = emitError(ui, "Delete item failed: " \o o.message)
                      /\ calls' = [calls EXCEPT ![s] = Caught(c, o.message)]
                 ELSE IF ~IsNull(c.guide)
                      THEN /\ ui' = ui
                           /\ calls' = [calls EXCEPT ![s] =
                                           Await(c, "refetch", GetVendorItems(Val(c.guide).id))]
                      ELSE /\ ui' = emitNotice(ui, "Item deleted.")
                           /\ calls' = [calls EXCEPT ![s] = Settle(c, "ok")]
           \/ /\ c.pc = "refetch"
              /\ r \in ItemResponses \cup FailResponses
              /\ ui' = emitNotice(loadVendorItems(ui, r), "Item deleted.")
              /\ calls' = [calls EXCEPT ![s] = Settle(c, "ok")]

\* loadRecipes (796-803) after its await
loadRecipes(u, r) ==
    LET o == apiRequest(r)
    IN  IF o.threw THEN emitError(u, "Recipes load failed: " \o o.message)
        ELSE [u EXCEPT !.recipes = ItemsOr(o.payload, "recipes")]

loadRecipesResume(s, r) ==
    /\ calls[s].kind = "loadRecipes"
    /\ calls[s].pc = "get"
    /\ ui' = loadRecipes(ui, r)
    /\ calls' = [calls EXCEPT ![s] = Loaded(calls[s], apiRequest(r))]

\* NEW RECIPE (1817, 1980)
newRecipe ==
    /\ ui.activeTab = "recipes"
    /\ IsNull(ui.editingRecipe)
    /\ ui' = [ui EXCEPT !.editingRecipe = Some(Blank)]
    /\ UNCHANGED calls

\* the edit button of a recipe card (1841-1846, 2004-2009); the ingredients the
\* button parses are not part of the rows of the model
editRecipe(i) ==
    /\ ui.activeTab = "recipes"
    /\ IsNull(ui.editingRecipe)
    /\ i \in 1..Len(ui.recipes)
    /\ ui' = [ui EXCEPT !.editingRecipe = Some(ui.recipes[i])]
    /\ UNCHANGED calls

\* CANCEL of the recipe editor (1825, 1988)
cancelRecipe ==
    /\ ui.activeTab = "recipes"
    /\ ~IsNull(ui.editingRecipe)
    /\ ui' = [ui EXCEPT !.editingRecipe = Null]
    /\ UNCHANGED calls

\* the submit of the recipe form (1860, 2022): saveRecipe (805-823) up to its first await
saveRecipe ==
    /\ ui.activeTab = "recipes"
    /\ ~IsNull(ui.editingRecipe)
    /\ CanCall
    /\ LET recipe == Val(ui.editingRecipe)
       IN  calls' = [calls EXCEPT ![NewSlot] =
                        [Suspended("saveRecipe", "mutate",
                                   IF isNew(recipe) THEN "created" ELSE "updated", "", ui,
                                   saveRequest(recipe, "/api/recipes", "/api/recipes/"))
                            EXCEPT !.sent = Some(recipe)]]
    /\ UNCHANGED ui

saveRecipeResume(s, r) ==
    LET c == calls[s]
        o == apiRequest(r)
    IN  /\ c.kind = "saveRecipe"
        /\ \/ /\ c.pc = "mutate"
              /\ r \in DoneResponses \cup FailResponses
              /\ IF o.threw
                 THEN /\ ui' = emitError(ui, "Save recipe failed: " \o o.message)
                      /\ calls' = [calls EXCEPT ![s] = Caught(c, o.message)]
                 ELSE /\ ui' = ui
                      /\ calls' = [calls EXCEPT ![s] = Await(c, "refetch", GetRecipes)]
           \/ /\ c.pc = "refetch"
              /\ r \in RecipeResponses \cup FailResponses
              /\ ui' = emitNotice([loadRecipes(ui, r) EXCEPT !.editingRecipe = Null],
                                  "Recipe " \o c.arg \o ".")
              /\ calls' = [calls EXCEPT ![s] = Settle(c, "ok")]

\* the delete button of a recipe card (1847, 2010): deleteRecipe (825-834)
deleteRecipe(i, confirmed) ==
    /\ ui.activeTab = "recipes"
    /\ IsNull(ui.editingRecipe)
    /\ i \in 1..Len(ui.recipes)
    /\ CanCall
    /\ IF confirmed
       THEN calls' = [calls EXCEPT ![NewSlot] =
                         Suspended("deleteRecipe", "mutate", "", "", ui,
                                   Req("DELETE", "/api/recipes/" \o ToString(ui.recipes[i].id)))]
       ELSE UNCHANGED calls
    /\ UNCHANGED ui

deleteRecipeResume(s, r) ==
    LET c == calls[s]
        o == apiRequest(r)
    IN  /\ c.kind = "deleteRecipe"
        /\ \/ /\ c.pc = "mutate"
              /\ r \in DoneResponses \cup FailResponses
              /\ IF o.threw
                 THEN /\ ui' = emitError(ui, "Delete recipe failed: " \o o.message)
                      /\ calls' = [calls EXCEPT ![s] = Caught(c, o.message)]
                 ELSE /\ ui' = ui
                      /\ calls' = [calls EXCEPT ![s] = Await(c, "refetch", GetRecipes)]
           \/ /\ c.pc = "refetch"
              /\ r \in RecipeResponses \cup FailResponses
              /\ ui' = emitNotice(loadRecipes(ui, r), "Recipe deleted.")
              /\ calls' = [calls EXCEPT ![s] = Settle(c, "ok")]

---------------------------------------------------------------------------
(* JSON values: the config document, the draft's fields, the PUT body *)

\* the numerals Number() reads as the number that prints the same way
Numerals == {"0", "1", "3", "5", "0.2", "0.7", "512", "1000"}

\* Number(v)
NumberOf(v) ==
    CASE v.t = "number"  -> v
      [] v.t = "string"  -> IF v.text = "" THEN Num("0")
                            ELSE IF v.text \in Numerals THEN Num(v.text)
                            ELSE Num("NaN")
      [] v.t = "boolean" -> Num(IF v.b THEN "1" ELSE "0")
      [] v.t = "null"    -> Num("0")
      [] OTHER           -> Num("NaN")

\* Boolean(v)
BooleanOf(v) == Bool(Truthy(v))

\* obj.key = v
SetField(obj, key, v) ==
    Obj([k \in DOMAIN obj.fields \cup {key} |-> IF k = key THEN v ELSE obj.fields[k]])

\* JSON.parse(JSON.stringify(v)): undefined fields are dropped, NaN becomes null
RECURSIVE jsonClone(_)
jsonClone(v) ==
    CASE v.t = "object" ->
            Obj([k \in {f \in DOMAIN v.fields : v.fields[f].t # "undefined"} |->
                    jsonClone(v.fields[k])])
      [] v.t = "number" /\ v.text = "NaN" -> JNull
      [] OTHER -> v

---------------------------------------------------------------------------
(* Settings (614-633, 1017-1051) *)

\* a config file with keys the settings panel does not show
FullConfig ==
    Obj([ ollama |-> Obj([ model |-> Str("llama3.1:8b"), temperature |-> Num("0.7"),
                           max_tokens |-> Num("1000"),
                           base_url |-> Str("http://localhost:11434") ]),
          rag |-> Obj([ top_k |-> Num("3"), enabled |-> Bool(TRUE), chunk_size |-> Num("512"),
                        ocr |-> Obj([enabled |-> Bool(TRUE), lang |-> Str("eng")]),
                        image_processing |-> Obj([extract_images |-> Bool(FALSE)]),
                        vision |-> Obj([enabled |-> Bool(FALSE), model |-> Str("")]) ]),
          telegram |-> Obj([token |-> Str("secret")]) ])

\* a config file with empty and missing sections
SparseConfig ==
    Obj([ ollama |-> JNull,
          rag |-> Obj([enabled |-> Bool(FALSE), ocr |-> JNull, chunk_size |-> Num("512")]),
          telegram |-> Obj([token |-> Str("secret")]) ])

\* a config file whose ollama section is a string
OddConfig ==
    Obj([ ollama |-> Str("remote"), telegram |-> Obj([token |-> Str("secret")]) ])

\* 2xx responses of GET /api/config
ConfigResponses ==
    { OkJson([status |-> "ok", config |-> FullConfig]),
      OkJson([status |-> "ok", config |-> SparseConfig]),
      OkJson([status |-> "ok", config |-> OddConfig]),
      OkJson([status |-> "ok"]) }

\* a draft whose numbers fall back to their defaults when they are zero
configDraftOfTruthy(cfg) ==
    LET ollama == Get(cfg, "ollama")
        rag == Get(cfg, "rag")
        vision == Get(rag, "vision")
    IN  [ model         |-> Or(Get(ollama, "model"), Str("llama3.1:8b")),
          temperature   |-> Str(StringOf(Or(Get(ollama, "temperature"), Num("0.7")))),
          maxTokens     |-> Str(StringOf(Or(Get(ollama, "max_tokens"), Num("1000")))),
          topK          |-> Str(StringOf(Or(Get(rag, "top_k"), Num("3")))),
          ragEnabled    |-> BooleanOf(Get(rag, "enabled")),
          ocrEnabled    |-> BooleanOf(Nullish(Get(Get(rag, "ocr"), "enabled"), Bool(TRUE))),
          extractImages |-> BooleanOf(Get(Get(rag, "image_processing"), "extract_images")),
          visionEnabled |-> BooleanOf(Get(vision, "enabled")),
          visionModel   |-> Or(Get(vision, "model"), Str("")) ]

\* the draft loadConfig derives from a config (619-629)
configDraftOf(cfg) ==
    LET ollama == Get(cfg, "ollama")
        rag == Get(cfg, "rag")
        vision == Get(rag, "vision")
    IN  [ model         |-> Or(Get(ollama, "model"), Str("llama3.1:8b")),
          temperature   |-> Str(StringOf(Nullish(Get(ollama, "temperature"), Num("0.7")))),
          maxTokens     |-> Str(StringOf(Nullish(Get(ollama, "max_tokens"), Num("1000")))),
          topK          |-> Str(StringOf(Nullish(Get(rag, "top_k"), Num("3")))),
          ragEnabled    |-> BooleanOf(Get(rag, "enabled")),
          ocrEnabled    |-> BooleanOf(Nullish(Get(Get(rag, "ocr"), "enabled"), Bool(TRUE))),
          extractImages |-> BooleanOf(Get(Get(rag, "image_processing"), "extract_images")),
          visionEnabled |-> BooleanOf(Get(vision, "enabled")),
          visionModel   |-> Or(Get(vision, "model"), Str("")) ]

\* payload.config || {} (617)
configOf(payload) ==
    IF Has(payload, "config") /\ Truthy(payload.config) THEN payload.config ELSE EmptyObj

\* loadConfig (614-633) after its await
loadConfig(u, r) ==
    LET o == apiRequest(r)
    IN  IF o.threw THEN emitError(u, "Config load failed: " \o o.message)
        ELSE [u EXCEPT !.configData = Some(configOf(o.payload)),
                       !.configDraft = Some(configDraftOf(configOf(o.payload)))]

loadConfigResume(s, r) ==
    /\ calls[s].kind = "loadConfig"
    /\ calls[s].pc = "get"
    /\ ui' = loadConfig(ui, r)
    /\ calls' = [calls EXCEPT ![s] = Loaded(calls[s], apiRequest(r))]

\* what the operator enters in the settings panel (2404-2480): text and number
\* inputs give the text typed, checkboxes give their checked state
DraftInputs ==
    [ model       |-> {Str("mistral:7b")},
      temperature |-> {Str("")},
      visionModel |-> {Str("llava")} ]

\* setConfigDraft((prev) => ({ ...prev, [field]: value }))
editConfigDraft(field, value) ==
    /\ ui.activeTab = "settings"
    /\ ~IsNull(ui.configDraft)
    /\ value \in DraftInputs[field]
    /\ ui' = [ui EXCEPT !.configDraft = Some([Val(@) EXCEPT ![field] = value])]
    /\ UNCHANGED calls

\* a save that builds the body from the draft alone
settingsNextFromDraftOnly(configData, configDraft) ==
    [ threw |-> FALSE,
      next |-> Obj([ ollama |-> Obj([ model |-> configDraft.model,
                                      temperature |-> NumberOf(configDraft.temperature),
                                      max_tokens |-> NumberOf(configDraft.maxTokens) ]),
                     rag |-> Obj([ top_k |-> NumberOf(configDraft.topK),
                                   enabled |-> BooleanOf(configDraft.ragEnabled),
                                   ocr |-> Obj([enabled |-> BooleanOf(configDraft.ocrEnabled)]),
                                   image_processing |->
                                       Obj([extract_images |-> BooleanOf(configDraft.extractImages)]),
                                   vision |-> Obj([ enabled |-> BooleanOf(configDraft.visionEnabled),
                                                    model |-> configDraft.visionModel ]) ]) ]) ]

\* the object saveSettings builds (1022-1038): a deep clone of configData with the
\* five containers created where they are missing or falsy and the nine fields of
\* the draft written into them.  Writing a property of a container that is a
\* truthy primitive throws a TypeError (the module is strict code).
settingsNext(configData, configDraft) ==
    LET clone == jsonClone(configData)
        ollama == Or(Get(clone, "ollama"), EmptyObj)
        rag == Or(Get(clone, "rag"), EmptyObj)
        ocr == Or(Get(rag, "ocr"), EmptyObj)
        image == Or(Get(rag, "image_processing"), EmptyObj)
        vision == Or(Get(rag, "vision"), EmptyObj)
    IN  IF \/ ollama.t # "object" \/ rag.t # "object" \/ ocr.t # "object"
           \/ image.t # "object" \/ vision.t # "object"
        THEN [threw |-> TRUE, next |-> clone]
        ELSE [ threw |-> FALSE,
               next |->
                 SetField(
                   SetField(clone, "ollama",
                     SetField(SetField(SetField(ollama,
                        "model", configDraft.model),
                        "temperature", NumberOf(configDraft.temperature)),
                        "max_tokens", NumberOf(configDraft.maxTokens))),
                   "rag",
                   SetField(SetField(SetField(SetField(SetField(rag,
                      "ocr", SetField(ocr, "enabled", BooleanOf(configDraft.ocrEnabled))),
                      "image_processing",
                          SetField(image, "extract_images", BooleanOf(configDraft.extractImages))),
                      "vision",
                          SetField(SetField(vision, "enabled", BooleanOf(configDraft.visionEnabled)),
                                   "model", configDraft.visionModel)),
                      "top_k", NumberOf(configDraft.topK)),
                      "enabled", BooleanOf(configDraft.ragEnabled))) ]

PutConfig == Req("PUT", "/api/config")

\* SAVE SETTINGS (2490): saveSettings (1017-1051) up to its return or its first
\* await; the body sent is JSON.stringify(next) as the server parses it
saveSettings ==
    /\ ui.activeTab = "settings"
    /\ CanCall
    /\ UNCHANGED ui
    /\ IF IsNull(ui.configData) \/ IsNull(ui.configDraft)
       THEN calls' = [calls EXCEPT ![NewSlot] = Returned("saveSettings", "", "skipped")]
       ELSE LET built == settingsNext(Val(ui.configData), Val(ui.configDraft))
            IN  IF built.threw
                THEN calls' = [calls EXCEPT ![NewSlot] = Returned("saveSettings", "", "threw")]
                ELSE calls' = [calls EXCEPT ![NewSlot] =
                                  [Suspended("saveSettings", "put", "", "", ui, PutConfig)
                                      EXCEPT !.sent = Some(jsonClone(built.next))]]

\* 2xx responses to the PUT: the server echoes the config it stored, or sends
\* no config
SaveResponses(c) ==
    IF IsNull(c.sent) THEN {}
    ELSE { OkJson([status |-> "ok", config |-> Val(c.sent)]), OkJson([status |-> "ok"]) }

\* setConfigData(payload.config) (1045)
savedConfig(payload) == IF Has(payload, "config") THEN Some(payload.config) ELSE Null

saveSettingsResume(s, r) ==
    LET c == calls[s]
        o == apiRequest(r)
    IN  /\ c.kind = "saveSettings"
        /\ \/ /\ c.pc = "put"
              /\ r \in SaveResponses(c) \cup FailResponses
              /\ IF o.threw
                 THEN /\ ui' = emitError(ui, "Save config failed: " \o o.message)
                      /\ calls' = [calls EXCEPT ![s] = Caught(c, o.message)]
                 ELSE /\ ui' = emitNotice([ui EXCEPT !.configData = savedConfig(o.payload)],
                                          "Configuration saved.")
                      /\ calls' = [calls EXCEPT ![s] = Await(c, "loadStatus", GetStatus)]
           \/ /\ c.pc = "loadStatus"
              /\ r \in StatusResponses \cup FailResponses
              /\ ui' = loadStatus(ui, r)
              /\ calls' = [calls EXCEPT ![s] = Settle(c, "ok")]

---------------------------------------------------------------------------
(* The remaining load functions (542-603, 635-642, 787-794) *)

AutonomyStatusResponses == { OkJson([status |-> "Idle", running |-> TRUE]) }

AutonomyLogResponses ==
    { OkJson([status |-> "ok", items |-> <<"autonomy row">>]),
      OkJson([status |-> "ok"]) }

Session(id) == [id |-> id]

SessionIds == {1, 2}

SessionResponses ==
    { OkJson([status |-> "ok", items |-> <<Session(1), Session(2)>>]),
      OkJson([status |-> "ok"]) }

\* the page of messages the API holds for a session
MessageResponses(sessionId) ==
    { OkJson([status |-> "ok", items |-> <<"message of session " \o sessionId>>]) }

InventoryResponses ==
    { OkJson([status |-> "ok", categories |-> <<"Dry goods">>]),
      OkJson([status |-> "ok"]) }

AboutResponses == { OkJson([status |-> "ok", version |-> "1.0"]) }

\* a load function resumes in slot s with response r and takes the state to next
LoadResume(s, kind, r, next) ==
    /\ calls[s].kind = kind
    /\ calls[s].pc = "get"
    /\ ui' = next
    /\ calls' = [calls EXCEPT ![s] = Loaded(calls[s], apiRequest(r))]

loadStatusResume(s, r) == LoadResume(s, "loadStatus", r, loadStatus(ui, r))

loadLogsResume(s, r) == LoadResume(s, "loadLogs", r, loadLogs(ui, r))

\* loadAutonomyStatus (551-558) after its await
loadAutonomyStatus(u, r) ==
    LET o == apiRequest(r)
    IN  IF o.threw THEN emitError(u, "Autonomy status failed: " \o o.message)
        ELSE [u EXCEPT !.autonomyStatus = o.payload]

loadAutonomyStatusResume(s, r) ==
    LoadResume(s, "loadAutonomyStatus", r, loadAutonomyStatus(ui, r))

\* loadAutonomyLogs (560-567) after its await
loadAutonomyLogs(u, r) ==
    LET o == apiRequest(r)
    IN  IF o.threw THEN emitError(u, "Autonomy logs failed: " \o o.message)
        ELSE [u EXCEPT !.autonomyLogs = ItemsOr(o.payload, "items")]

loadAutonomyLogsResume(s, r) ==
    LoadResume(s, "loadAutonomyLogs", r, loadAutonomyLogs(ui, r))

\* loadSessions (579-590) after its await, in the closure whose
\* selectedSessionId is sel
loadSessions(u, r, sel) ==
    LET o    == apiRequest(r)
        rows == ItemsOr(o.payload, "items")
    IN  IF o.threw THEN emitError(u, "Sessions load failed: " \o o.message)
        ELSE [u EXCEPT !.sessions = rows,
                       !.selectedSessionId =
                           IF Len(rows) > 0 /\ IsNull(sel) THEN Some(rows[1].id) ELSE @]

\* the render after loadSessions runs the effects that depend on
\* selectedSessionId when the load has selected the first session
loadSessionsResume(s, r) ==
    LET new == loadSessions(ui, r, calls[s].sel)
    IN  /\ calls[s].kind = "loadSessions"
        /\ calls[s].pc = "get"
        /\ Room(Len(effectLoads(ui, new)))
        /\ ui' = effectState(ui, new)
        /\ calls' = [Start(effectLoads(ui, new)) EXCEPT ![s] = Loaded(calls[s], apiRequest(r))]

\* a loadSessionMessages that drops the page of a session no longer selected
loadSessionMessagesOfSelected(u, r) ==
    LET o == apiRequest(r)
    IN  IF o.threw THEN emitError(u, "Session messages load failed: " \o o.message)
        ELSE IF r \in
                    UNION {MessageResponses(ToString(id)) : id \in SessionIds \ {Val(u.selectedSessionId)}}
             THEN u
             ELSE [u EXCEPT !.sessionMessages = ItemsOr(o.payload, "items")]

\* loadSessionMessages (592-603) after its await
loadSessionMessages(u, r) ==
    LET o == apiRequest(r)
    IN  IF o.threw THEN emitError(u, "Session messages load failed: " \o o.message)
        ELSE [u EXCEPT !.sessionMessages = ItemsOr(o.payload, "items")]

loadSessionMessagesResume(s, r) ==
    LoadResume(s, "loadSessionMessages", r, loadSessionMessages(ui, r))

\* loadInventorySheets (787-794) after its await
loadInventorySheets(u, r) ==
    LET o == apiRequest(r)
    IN  IF o.threw THEN emitError(u, "Inventory sheets load failed: " \o o.message)
        ELSE [u EXCEPT !.inventorySheets = ItemsOr(o.payload, "categories")]

loadInventorySheetsResume(s, r) ==
    LoadResume(s, "loadInventorySheets", r, loadInventorySheets(ui, r))

\* loadAbout (635-642) after its await
loadAbout(u, r) ==
    LET o == apiRequest(r)
    IN  IF o.threw THEN emitError(u, "System info load failed: " \o o.message)
        ELSE [u EXCEPT !.aboutInfo = Some(o.payload)]

loadAboutResume(s, r) == LoadResume(s, "loadAbout", r, loadAbout(ui, r))

---------------------------------------------------------------------------
(* Mounting, the poll timer, the log filter and the session list *)

Mounted == ui.timers # {} /\ ~ui.unmounted

\* the first commit of App: the effects run in the order of their declaration
\* (644-663, 836-868), activeTab being 'overview' and no session selected
mount ==
    /\ ui.timers = {}
    /\ ~ui.unmounted
    /\ Room(Len(mountEffect(ui) \o tabEffect(ui) \o sessionEffect(ui)))
    /\ calls' = Start(mountEffect(ui) \o tabEffect(ui) \o sessionEffect(ui))
    /\ ui' = [clearFlash(ui) EXCEPT !.timers = {Timer(ui)}]

\* the load functions one run of the interval callback t calls (652-659)
tickLoads(t, u) ==
    << Load("loadStatus", "", "poll", u, GetStatus) >>
    \o (IF t.activeTab = "overview"
        THEN << Load("loadLogs", t.logFilter, "poll", u,
                     GetLogs(logLevel(t.logFilter, u.logFilter))) >>
        ELSE << >>)
    \o (IF t.activeTab = "autonomy"
        THEN << Load("loadAutonomyStatus", "", "poll", u, GetAutonomyStatus),
                Load("loadAutonomyLogs", "", "poll", u, GetAutonomyLogs) >>
        ELSE << >>)

\* five seconds have passed on a live timer (651-660)
tick ==
    \E t \in ui.timers :
        /\ Room(Len(tickLoads(t, ui)))
        /\ calls' = Start(tickLoads(t, ui))
        /\ UNCHANGED ui

\* a teardown that leaves the interval running
leftRunning(timers) == timers

\* the cleanup of the poll effect at teardown (662)
cleared(timers) == {}

\* App is unmounted: the cleanups of its effects run
unmount ==
    /\ Mounted
    /\ ui' = [ui EXCEPT !.timers = cleared(@), !.unmounted = TRUE]
    /\ UNCHANGED calls

\* a filter button of the diagnostic log (1227-1242): setLogFilter(level),
\* loadLogs(level), and after the render the effects on loadLogs and logFilter
selectLogFilter(level) ==
    Render([ui EXCEPT !.logFilter = level],
           << Load("loadLogs", level, "click", ui, GetLogs(logLevel(level, ui.logFilter))) >>)

\* a row of the session list (1297): setSelectedSessionId(row.id), and after
\* the render the effects on selectedSessionId
selectSession(id) ==
    /\ ui.activeTab = "sessions"
    /\ \E i \in 1..Len(ui.sessions) : ui.sessions[i].id = id
    /\ Render([ui EXCEPT !.selectedSessionId = Some(id)], << >>)

---------------------------------------------------------------------------
(* CLEAR HISTORY of the session panel (919-932, 1315-1322) *)

DeleteSessionMessages(sessionId) ==
    Req("DELETE", "/api/sessions/" \o ToString(sessionId) \o "/messages")

\* 2xx responses of the DELETE: with a count, with a count of zero, without one
ClearResponses ==
    { OkJson([status |-> "ok", deleted |-> 3]),
      OkJson([status |-> "ok", deleted |-> 0]),
      OkJson([status |-> "ok"]) }

\* a notice that prints payload.deleted as it came
clearedNoticeOfField(payload, sessionId) ==
    "Cleared " \o (IF Has(payload, "deleted") THEN ToString(payload.deleted) ELSE "undefined")
               \o " messages from session " \o sessionId \o "."

\* `Cleared ${payload.deleted || 0} messages from session ${selectedSessionId}.` (926)
clearedNotice(payload, sessionId) ==
    "Cleared " \o (IF Has(payload, "deleted") /\ payload.deleted # 0
                   THEN ToString(payload.deleted) ELSE "0")
               \o " messages from session " \o sessionId \o "."

\* CLEAR HISTORY (1317), disabled while no session is selected (1318):
\* clearSelectedSession (919-932) up to its return or its first await
clearSelectedSession ==
    /\ ui.activeTab = "sessions"
    /\ ~IsNull(ui.selectedSessionId)
    /\ CanCall
    /\ UNCHANGED ui
    /\ IF IsNull(ui.selectedSessionId)
       THEN calls' = [calls EXCEPT ![NewSlot] = Returned("clearSelectedSession", "", "none")]
       ELSE calls' = [calls EXCEPT ![NewSlot] =
                         Suspended("clearSelectedSession", "delete",
                                   ToString(Val(ui.selectedSessionId)), "", ui,
                                   DeleteSessionMessages(Val(ui.selectedSessionId)))]

\* clearSelectedSession resumed with the response r of the request it awaits;
\* its loadSessions is the callback of the render it was called from, in which
\* a session is selected
clearSelectedSessionResume(s, r) ==
    LET c == calls[s]
        o == apiRequest(r)
    IN  /\ c.kind = "clearSelectedSession"
        /\ \/ /\ c.pc = "delete"
              /\ r \in ClearResponses \cup FailResponses
              /\ IF o.threw
                 THEN /\ ui' = emitError(ui, "Clear session failed: " \o o.message)
                      /\ calls' = [calls EXCEPT ![s] = Caught(c, o.message)]
                 ELSE /\ ui' = emitNotice(ui, clearedNotice(o.payload, c.arg))
                      /\ calls' = [calls EXCEPT ![s] =
                                      [Await(c, "loadSessionMessages",
                                             GetSessionMessages(Val(c.sel)))
                                          EXCEPT !.payload = o.payload]]
           \/ /\ c.pc = "loadSessionMessages"
              /\ r \in MessageResponses(c.arg) \cup FailResponses
              /\ ui' = loadSessionMessages(ui, r)
              /\ calls' = [calls EXCEPT ![s] = Await(c, "loadSessions", GetSessions)]
           \/ /\ c.pc = "loadSessions"
              /\ r \in SessionResponses \cup FailResponses
              /\ ui' = loadSessions(ui, r, c.sel)
              /\ calls' = [calls EXCEPT ![s] = Settle(c, "ok")]

---------------------------------------------------------------------------
(* The mail client button of the composer and the test lab (733-744, 982-1015) *)

\* a draft the API generated for a vendor that has no email address
BareDraftResponses ==
    { OkJson([ status |-> "ok", subject |-> "Order for Friday", body |-> "Please deliver.",
               vendor_email |-> "" ]) }

\* if (!editingDraft || !editingDraft.vendorEmail) (734)
vendorEmailMissing(u) ==
    \/ IsNull(u.editingDraft)
    \/ ~Has(Val(u.editingDraft), "vendorEmail")
    \/ Val(u.editingDraft).vendorEmail = ""

\* the validation failure of openMailClient (735-736)
openMailClientInvalid(u) == emitError(u, "Missing vendor email.")

\* OPEN IN MAIL APP (1587), shown once the draft has a body (1566): openMailClient (733-744)
openMailClient ==
    /\ ComposerShown(ui)
    /\ Val(ui.editingDraft).body # ""
    /\ CanCall
    /\ IF vendorEmailMissing(ui)
       THEN /\ ui' = openMailClientInvalid(ui)
            /\ calls' = [calls EXCEPT ![NewSlot] = Returned("openMailClient", "", "invalid")]
       ELSE /\ ui' = emitNotice([ui EXCEPT !.editingDraft = Null], "Mail client opened.")
            /\ calls' = [calls EXCEPT ![NewSlot] = Returned("openMailClient", "", "ok")]

PostBrainTest == Req("POST", "/api/test/brain")

PostTranscribe == Req("POST", "/api/test/transcribe")

BrainResponses == { OkJson([status |-> "ok", answer |-> "Braise first."]) }

TranscribeResponses == { OkJson([status |-> "ok", text |-> "two cases of lemons"]) }

\* the audio file input of the test lab (2365)
selectAudioFile(file) ==
    /\ ui.activeTab = "test-lab"
    /\ ui' = [ui EXCEPT !.audioFile = file]
    /\ UNCHANGED calls

\* RUN BRAIN TEST (2345): runBrainTest (982-994) up to its await
runBrainTest ==
    /\ ui.activeTab = "test-lab"
    /\ CanCall
    /\ calls' = [calls EXCEPT ![NewSlot] =
                    Suspended("runBrainTest", "post", "", "", ui, PostBrainTest)]
    /\ UNCHANGED ui

\* a runBrainTest whose catch block shows err.message alone
brainTestFailedBare(u, message) == emitError(u, message)

\* the catch block of runBrainTest (992)
brainTestFailed(u, message) == emitError(u, "Brain test failed: " \o message)

runBrainTestResume(s, r) ==
    LET c == calls[s]
        o == apiRequest(r)
    IN  /\ c.kind = "runBrainTest"
        /\ c.pc = "post"
        /\ IF o.threw
           THEN /\ ui' = brainTestFailed(ui, o.message)
                /\ calls' = [calls EXCEPT ![s] = Caught(c, o.message)]
           ELSE /\ ui' = emitNotice([ui EXCEPT !.brainAnswer = StrOr(o.payload, "answer", "")],
                                    "Brain test completed.")
                /\ calls' = [calls EXCEPT ![s] = Settle(c, "ok")]

\* RUN TRANSCRIPTION (2370): runTranscriptionTest (996-1015) up to its return or its await
runTranscriptionTest ==
    /\ ui.activeTab = "test-lab"
    /\ CanCall
    /\ IF IsNull(ui.audioFile)
       THEN /\ ui' = emitError(ui, "Select an audio file first.")
            /\ calls' = [calls EXCEPT ![NewSlot] = Returned("runTranscriptionTest", "", "invalid")]
       ELSE /\ ui' = ui
            /\ calls' = [calls EXCEPT ![NewSlot] =
                            [Suspended("runTranscriptionTest", "post", "", "", ui, PostTranscribe)
                                EXCEPT !.sent = ui.audioFile]]

runTranscriptionTestResume(s, r) ==
    LET c == calls[s]
        o == apiRequest(r)
    IN  /\ c.kind = "runTranscriptionTest"
        /\ c.pc = "post"
        /\ IF o.threw
           THEN /\ ui' = emitError(ui, "Transcription failed: " \o o.message)
                /\ calls' = [calls EXCEPT ![s] = Caught(c, o.message)]
           ELSE /\ ui' = emitNotice([ui EXCEPT !.transcript = StrOr(o.payload, "text", "")],
                                    "Transcription test completed.")
                /\ calls' = [calls EXCEPT ![s] = Settle(c, "ok")]

---------------------------------------------------------------------------
(* The menu engineering, prep list and inventory views (33-43, 134-155, 1727-1740) *)

MenuResponses ==
    { OkJson([ items |-> <<[id |-> 1, name |-> "Short rib", classification |-> "Star"]>>,
               averages |-> [margin |-> 12, count |-> 40] ]) }

\* recipe rows as PrepListView reads them (139, 147, 157)
PrepRecipeResponses ==
    { OkJson([status |-> "ok", recipes |-> <<[id |-> 1, par_level |-> 4, on_hand |-> 1]>>]),
      OkJson([status |-> "ok"]) }

\* a promise that rejected with no rejection handler attached: the error goes
\* to the runtime's unhandledrejection event and no state is written
Unhandled(call, message) == [Settle(call, "unhandled") EXCEPT !.err = message]

\* a rejection passed to console.error (41)
Logged(call, message) == [Settle(call, "logged") EXCEPT !.err = message]

\* the promise chain of MenuEngineeringView's effect (39-42), from the response on
menuEngineeringResume(s, r) ==
    LET c == calls[s]
        o == apiRequest(r)
    IN  /\ c.kind = "MenuEngineeringView"
        /\ c.pc = "get"
        /\ ui.activeTab = "menu-engineering"
        /\ IF o.threw
           THEN /\ ui' = [ui EXCEPT !.menuLoading = FALSE]
                /\ calls' = [calls EXCEPT ![s] = Logged(c, o.message)]
           ELSE /\ ui' = [ui EXCEPT !.menuData = o.payload, !.menuLoading = FALSE]
                /\ calls' = [calls EXCEPT ![s] = Settle(c, "ok")]

\* loadData of PrepListView (138-140), from the response on: then() has no
\* rejection handler and the chain has no catch()
prepLoadDataResume(s, r) ==
    LET c == calls[s]
        o == apiRequest(r)
    IN  /\ c.kind = "PrepListView.loadData"
        /\ c.pc = "get"
        /\ ui.activeTab = "prep-list"
        /\ IF o.threw
           THEN /\ ui' = ui
                /\ calls' = [calls EXCEPT ![s] = Unhandled(c, o.message)]
           ELSE /\ ui' = [ui EXCEPT !.prepRecipes = ItemsOr(o.payload, "recipes")]
                /\ calls' = [calls EXCEPT ![s] = Settle(c, "ok")]

\* the AUDIT and PLAN buttons of the prep list (161, 167)
setMode(mode) ==
    /\ ui.activeTab = "prep-list"
    /\ ui' = [ui EXCEPT !.prepMode = mode]
    /\ UNCHANGED calls

\* GENERATE PREP LIST (204), shown in audit mode: saveCounts (144-155) up to its await
saveCounts ==
    /\ ui.activeTab = "prep-list"
    /\ ui.prepMode = "audit"
    /\ CanCall
    /\ calls' = [calls EXCEPT ![NewSlot] =
                    Suspended("PrepListView.saveCounts", "post", "", "", ui, PostPrepUpdate)]
    /\ UNCHANGED ui

\* saveCounts after its await, which is in no try block
saveCountsResume(s, r) ==
    LET c == calls[s]
        o == apiRequest(r)
    IN  /\ c.kind = "PrepListView.saveCounts"
        /\ c.pc = "post"
        /\ ui.activeTab = "prep-list"
        /\ IF o.threw
           THEN /\ ui' = ui
                /\ calls' = [calls EXCEPT ![s] = Unhandled(c, o.message)]
           ELSE /\ ui' = [ui EXCEPT !.prepMode = "plan"]
                /\ calls' = [calls EXCEPT ![s] = Settle(c, "ok")]

\* the render of the inventory tab in counting mode evaluates
\* onClick={saveInventoryCounts} (1736), an identifier no scope declares
renderThrows(u) == u.activeTab = "inventory" /\ u.isCountingMode

\* the message of that ReferenceError
NotDefined == "saveInventoryCounts is not defined"

\* an error thrown while rendering, no error boundary being mounted: React
\* unmounts the tree and the cleanups of the effects run
renderFailed(u, message) ==
    [u EXCEPT !.renderError = message, !.timers = cleared(@), !.unmounted = TRUE]

\* ENTER COUNTS / CANCEL COUNT (1727), and the render that follows
toggleCountingMode ==
    LET new == [ui EXCEPT !.isCountingMode = ~@]
    IN  /\ ui.activeTab = "inventory"
        /\ ui' = IF renderThrows(new) THEN renderFailed(new, NotDefined) ELSE new
        /\ UNCHANGED calls

---------------------------------------------------------------------------
(* Specifications *)

ControlNext ==
    \/ handleManualOverride
    \/ handleExecuteSequence
    \/ \E s \in Slots, r \in ControlResponses \cup StatusResponses \cup LogResponses \cup FailResponses :
          handleExecuteSequenceResume(s, r)
    \/ handleEmergencyStop
    \/ \E s \in Slots, r \in ControlResponses \cup StatusResponses \cup LogResponses \cup FailResponses :
          controlBotResume(s, r)

\* the command bar: Manual Override, Execute Sequence, Emergency Stop
Spec == Init /\ [][ControlNext]_vars

\* a 2xx response of a control endpoint that carries no message
AckResponses == {OkJson([status |-> "ok"])}

FlagNext ==
    \/ handleExecuteSequence
    \/ \E s \in Slots, r \in AckResponses \cup StatusResponses \cup LogResponses \cup FailResponses :
          handleExecuteSequenceResume(s, r)
    \/ handleEmergencyStop
    \/ \E s \in Slots, r \in AckResponses \cup StatusResponses \cup LogResponses \cup FailResponses :
          controlBotResume(s, r)
    \/ visitTab("vendors")
    \/ \E s \in Slots, r \in ShortVendorResponses \cup FailResponses : loadVendorsResume(s, r)
    \/ \E i \in 1..1 : openComposer(i)
    \/ \E text \in {"", "5kg salmon"} : editDraftContext(text)
    \/ cancelComposer
    \/ generateDraft
    \/ \E s \in Slots, r \in DraftResponses \cup FailResponses : generateDraftResume(s, r)

\* the actions that write the processing flag: Execute Sequence, Emergency Stop
\* and the draft generation of the email composer
FlagSpec == Init /\ [][FlagNext]_vars

ConfigNext ==
    \/ visitTab("settings")
    \/ \E s \in Slots, r \in ConfigResponses \cup FailResponses : loadConfigResume(s, r)
    \/ \E field \in DOMAIN DraftInputs : \E value \in DraftInputs[field] :
          editConfigDraft(field, value)
    \/ saveSettings
    \/ \E s \in Slots : \E r \in SaveResponses(calls[s]) \cup StatusResponses \cup FailResponses :
          saveSettingsResume(s, r)

\* the settings tab
ConfigSpec == Init /\ [][ConfigNext]_vars

InputNext ==
    \/ \E tab \in {"knowledge", "vendors"} : CanCall /\ selectTab(tab)
    \/ \E s \in Slots, r \in KnowledgeResponses \cup FailResponses : loadKnowledgeResume(s, r)
    \/ \E file \in {Null, Some("menu.pdf")} : selectUploadFile(file)
    \/ uploadKnowledgeSource
    \/ \E s \in Slots, r \in UploadResponses \cup KnowledgeResponses \cup FailResponses :
          uploadKnowledgeSourceResume(s, r)
    \/ \E s \in Slots, r \in ShortVendorResponses \cup FailResponses : loadVendorsResume(s, r)
    \/ \E i \in 1..1 : openComposer(i)
    \/ \E text \in {"", "5kg salmon"} : editDraftContext(text)
    \/ cancelComposer
    \/ generateDraft
    \/ \E s \in Slots, r \in DraftResponses \cup FailResponses : generateDraftResume(s, r)

\* the two actions that validate local input: the knowledge upload and the
\* draft generation
InputSpec == Init /\ [][InputNext]_vars

AnyResponse ==
    DoneResponses \cup FailResponses \cup KnowledgeResponses \cup UploadResponses
    \cup VendorResponses \cup ItemResponses \cup RecipeResponses

CrudNext ==
    \/ \E tab \in {"knowledge", "vendors", "recipes"} : visitTab(tab)
    \/ \E s \in Slots, r \in KnowledgeResponses \cup FailResponses : loadKnowledgeResume(s, r)
    \/ \E file \in {Null, Some("menu.pdf")} : selectUploadFile(file)
    \/ uploadKnowledgeSource
    \/ \E s \in Slots, r \in AnyResponse : uploadKnowledgeSourceResume(s, r)
    \/ \E i \in 1..2 : toggleKnowledgeSource(i)
    \/ \E s \in Slots, r \in AnyResponse : toggleKnowledgeSourceResume(s, r)
    \/ \E i \in 1..2 : deleteKnowledgeSource(i)
    \/ \E s \in Slots, r \in AnyResponse : deleteKnowledgeSourceResume(s, r)
    \/ \E s \in Slots, r \in VendorResponses \cup FailResponses : loadVendorsResume(s, r)
    \/ newVendor
    \/ \E i \in 1..2 : editVendor(i)
    \/ cancelVendor
    \/ saveVendor
    \/ \E s \in Slots, r \in AnyResponse : saveVendorResume(s, r)
    \/ \E i \in 1..2, confirmed \in BOOLEAN : deleteVendor(i, confirmed)
    \/ \E s \in Slots, r \in AnyResponse : deleteVendorResume(s, r)
    \/ \E i \in 1..2 : openOrderGuide(i)
    \/ \E s \in Slots, r \in ItemResponses \cup FailResponses : loadVendorItemsResume(s, r)
    \/ closeOrderGuide
    \/ newItem
    \/ \E i \in 1..2 : editItem(i)
    \/ cancelItem
    \/ saveVendorItem
    \/ \E s \in Slots, r \in AnyResponse : saveVendorItemResume(s, r)
    \/ \E i \in 1..2, confirmed \in BOOLEAN : deleteVendorItem(i, confirmed)
    \/ \E s \in Slots, r \in AnyResponse : deleteVendorItemResume(s, r)
    \/ \E s \in Slots, r \in RecipeResponses \cup FailResponses : loadRecipesResume(s, r)
    \/ newRecipe
    \/ \E i \in 1..2 : editRecipe(i)
    \/ cancelRecipe
    \/ saveRecipe
    \/ \E s \in Slots, r \in AnyResponse : saveRecipeResume(s, r)
    \/ \E i \in 1..2, confirmed \in BOOLEAN : deleteRecipe(i, confirmed)
    \/ \E s \in Slots, r \in AnyResponse : deleteRecipeResume(s, r)

\* the list-mutating actions of the knowledge, vendors and recipes tabs
CrudSpec == Init /\ [][CrudNext]_vars

ToggleNext ==
    \/ \E action \in {"start", "stop", "restart"} : controlBot(action)
    \/ \E s \in Slots, r \in ControlResponses \cup StatusResponses \cup LogResponses \cup FailResponses :
          controlBotResume(s, r)
    \/ \E action \in {"start", "stop"} : controlOllama(action)
    \/ \E s \in Slots, r \in ControlResponses \cup StatusResponses \cup FailResponses :
          controlOllamaResume(s, r)

\* the toggle controls of the overview tab
ToggleSpec == Init /\ [][ToggleNext]_vars

---------------------------------------------------------------------------
(* Claims about the command bar and the composer *)

\* C1: the processing flag is true only while some Execute Sequence or draft
\* generation is suspended at a request; once all of them have settled, by
\* success or by failure, it is false.
C1_ProcessingOnlyWhileInFlight ==
    ui.processingAction =>
        \E s \in Slots :
            /\ InFlight(calls[s])
            /\ calls[s].kind \in {"handleExecuteSequence", "generateDraft"}

\* an Execute Sequence and a draft generation have both failed and the flag is false
C1_Witness ==
    /\ ~ui.processingAction
    /\ \E s \in Slots :
          /\ calls[s].kind = "handleExecuteSequence"
          /\ calls[s].pc = "settled" /\ calls[s].out = "failed"
    /\ \E s \in Slots :
          /\ calls[s].kind = "generateDraft"
          /\ calls[s].pc = "settled" /\ calls[s].out = "failed"

ExecuteSteps == <<PostOllama("start"), PostBot("restart"), GetStatus, GetLogs("all")>>

\* C2: Execute Sequence issues POST ollama/start, POST bot/restart, the status
\* reload and the log reload in this order, the next one in the step in which the
\* previous one resolves; when step 1 or step 2 rejects, the invocation ends having
\* issued nothing after the rejected request, and in that step the error becomes
\* "Execute sequence failed: " followed by the message of the rejection.
C2_OrderedAndStopsAtFailure ==
    /\ [](\A s \in Slots :
            LET c == calls[s]
            IN  c.kind = "handleExecuteSequence" =>
                  /\ c.pc = "ollama_start" => c.reqs = SubSeq(ExecuteSteps, 1, 1)
                  /\ c.pc = "bot_restart" => c.reqs = SubSeq(ExecuteSteps, 1, 2)
                  /\ c.pc = "loadStatus" => c.reqs = SubSeq(ExecuteSteps, 1, 3)
                  /\ c.pc = "loadLogs" => c.reqs = ExecuteSteps
                  /\ c.pc = "settled" /\ c.out = "ok" => c.reqs = ExecuteSteps
                  /\ c.pc = "settled" /\ c.out = "failed" =>
                        c.reqs \in {SubSeq(ExecuteSteps, 1, 1), SubSeq(ExecuteSteps, 1, 2)})
    /\ [][\A s \in Slots :
            ( /\ calls[s].kind = "handleExecuteSequence"
              /\ calls[s].pc \in {"ollama_start", "bot_restart"}
              /\ calls'[s].pc = "settled" )
            => /\ calls'[s].out = "failed"
               /\ calls'[s].reqs = calls[s].reqs
               /\ calls'[s].err \in {apiRequest(r).message : r \in FailResponses}
               /\ ui'.error = "Execute sequence failed: " \o calls'[s].err
               /\ ui'.notice = ""
               /\ ~ui'.processingAction
         ]_vars

\* an Execute Sequence has failed at its second step with the server's detail
C2_Witness ==
    \E s \in Slots :
        /\ calls[s].kind = "handleExecuteSequence"
        /\ calls[s].pc = "settled" /\ calls[s].out = "failed"
        /\ calls[s].reqs = <<PostOllama("start"), PostBot("restart")>>
        /\ calls[s].err = "service busy"
        /\ ui.error = "Execute sequence failed: service busy"

EmergencyCalls == {s \in Slots : calls[s].via = "handleEmergencyStop"}

\* C3: in the step in which Emergency Stop issues its stop request the processing
\* flag is false, whatever else is in flight, and the request is still unresolved;
\* an Emergency Stop issues exactly one POST, to the bot stop endpoint, first.
C3_StopClearsFlagAtOnce ==
    /\ [](\A s \in EmergencyCalls :
            /\ Issued(calls[s], "POST") = <<PostBot("stop")>>
            /\ calls[s].reqs[1] = PostBot("stop"))
    /\ [][\A s \in Slots :
            ( /\ calls'[s] # calls[s]
              /\ calls'[s].via = "handleEmergencyStop"
              /\ calls'[s].pc = "post" )
            => /\ ~ui'.processingAction
               /\ calls'[s].reqs = <<PostBot("stop")>>
         ]_vars

\* the stop request of an Emergency Stop is unresolved, an Execute Sequence is
\* still in flight, and the flag is false
C3_Witness ==
    /\ ~ui.processingAction
    /\ \E s \in Slots :
          calls[s].kind = "handleExecuteSequence" /\ calls[s].pc = "bot_restart"
    /\ \E s \in EmergencyCalls : calls[s].pc = "post"

\* C10: the notice and the error are never both non-empty.
C10_FlashExclusive == ui.notice = "" \/ ui.error = ""

\* the log still shows the manual override, whose notice has since been replaced
\* by an error
C10_Witness ==
    /\ ui.logs = <<OverrideLogRow>>
    /\ ui.notice = ""
    /\ ui.error # ""

---------------------------------------------------------------------------
(* Claims about the toggle controls *)

ToggleCalls == {s \in Slots : calls[s].kind \in {"controlBot", "controlOllama"}}

TogglePost(c) == IF c.kind = "controlBot" THEN PostBot(c.arg) ELSE PostOllama(c.arg)

\* the requests of a toggle control whose POST resolved and whose reloads were issued
ToggleReloaded(c) ==
    IF c.kind = "controlBot"
    THEN <<PostBot(c.arg), GetStatus, GetLogs("all")>>
    ELSE <<PostOllama(c.arg), GetStatus>>

\* C4 as stated: every toggle control that has ended issued its POST and then the
\* status reload (and, for the bot, the log reload), whatever became of the POST.
C4_ReloadWhateverOutcome ==
    \A s \in ToggleCalls :
        calls[s].pc = "settled" => calls[s].reqs = ToggleReloaded(calls[s])

\* C4 amended: a toggle control issues exactly one POST, first; when the POST
\* resolves with a 2xx response, whatever message it carries, the status reload
\* (and for the bot then the log reload) follows; when the POST rejects, no reload
\* is issued.
C4_ReloadAfterResolvedPost ==
    \A s \in ToggleCalls :
        LET c == calls[s]
        IN  /\ c.reqs[1] = TogglePost(c)
            /\ Len(Issued(c, "POST")) = 1
            /\ c.pc = "post" => c.reqs = <<TogglePost(c)>>
            /\ c.pc = "loadStatus" => c.reqs = <<TogglePost(c), GetStatus>>
            /\ c.pc = "loadLogs" => c.reqs = ToggleReloaded(c)
            /\ c.pc = "settled" /\ c.out = "ok" => c.reqs = ToggleReloaded(c)
            /\ c.pc = "settled" /\ c.out = "failed" => c.reqs = <<TogglePost(c)>>

\* a bot restart whose POST resolved without a message has ended after both
\* reloads, and an Ollama toggle has ended after its status reload
C4_Witness ==
    /\ \E s \in Slots :
          /\ calls[s].kind = "controlBot" /\ calls[s].arg = "restart"
          /\ calls[s].pc = "settled" /\ calls[s].out = "ok"
          /\ ui.notice = "Bot restart executed."
    /\ \E s \in Slots :
          /\ calls[s].kind = "controlOllama"
          /\ calls[s].pc = "settled" /\ calls[s].out = "ok"

\* C5: in the step in which controlBot(action) ends after a successful POST, the
\* status reload and then the log reload have been issued and the log reload is
\* the request that has just resolved; the notice is then the server's message,
\* or "Bot <action> executed." when the server supplies none (no message key or
\* an empty one), and the error is empty, also when one of the reloads failed.
C5_BotNoticeAfterReloads ==
    [][\A s \in Slots :
          ( /\ calls[s].kind = "controlBot"
            /\ calls[s].pc # "settled"
            /\ calls'[s].pc = "settled"
            /\ calls'[s].out = "ok" )
          => /\ calls[s].pc = "loadLogs"
             /\ calls'[s].reqs = <<PostBot(calls[s].arg), GetStatus, GetLogs("all")>>
             /\ ui'.notice = ( IF "message" \in DOMAIN calls[s].payload
                                  /\ calls[s].payload.message # ""
                               THEN calls[s].payload.message
                               ELSE "Bot " \o calls[s].arg \o " executed." )
             /\ ui'.error = ""
      ]_vars

\* a bot start has ended with the server's message as the notice
C5_Witness ==
    \E s \in Slots :
        /\ calls[s].kind = "controlBot" /\ calls[s].arg = "start"
        /\ calls[s].pc = "settled" /\ calls[s].out = "ok"
        /\ calls[s].reqs = <<PostBot("start"), GetStatus, GetLogs("all")>>
        /\ ui.notice = "done by server"
        /\ ui.error = ""

---------------------------------------------------------------------------
(* Claims about the list-mutating actions *)

KnowledgeMutations == {"toggleKnowledgeSource", "deleteKnowledgeSource", "uploadKnowledgeSource"}

VendorMutations == {"saveVendor", "deleteVendor"}

ItemMutations == {"saveVendorItem", "deleteVendorItem"}

RecipeMutations == {"saveRecipe", "deleteRecipe"}

Mutations == KnowledgeMutations \cup VendorMutations \cup ItemMutations \cup RecipeMutations

\* the requests that fetch the list a mutation of this kind changes
Refetches(kind) ==
    IF kind \in KnowledgeMutations THEN {GetKnowledge}
    ELSE IF kind \in VendorMutations THEN {GetVendors}
    ELSE IF kind \in ItemMutations THEN {GetVendorItems(id) : id \in EntityIds}
    ELSE {GetRecipes}

\* the list slices of the state
Slices == {"knowledge", "vendors", "vendorItems", "recipes"}

\* the requests whose response is written to a slice
FetchesOf(slice) ==
    IF slice = "knowledge" THEN {GetKnowledge}
    ELSE IF slice = "vendors" THEN {GetVendors}
    ELSE IF slice = "recipes" THEN {GetRecipes}
    ELSE {GetVendorItems(id) : id \in EntityIds}

\* the lists a 2xx response to a fetch of a slice can carry
Fetched(slice) ==
    IF slice = "knowledge" THEN {ItemsOr(r.body, "items") : r \in KnowledgeResponses}
    ELSE IF slice = "vendors" THEN {ItemsOr(r.body, "items") : r \in VendorResponses}
    ELSE IF slice = "recipes" THEN {ItemsOr(r.body, "recipes") : r \in RecipeResponses}
    ELSE {ItemsOr(r.body, "items") : r \in ItemResponses}

\* the calls that are suspended at a fetch of a slice
Fetching(slice) ==
    {s \in Slots : /\ InFlight(calls[s])
                   /\ calls[s].reqs[Len(calls[s].reqs)] \in FetchesOf(slice)}

\* C6: a list-mutating action whose mutation request has resolved successfully
\* goes on to refetch its list (it ends after one request only when that request
\* was rejected), and a list slice changes only in the step in which a fetch of
\* that list resolves, to the list the response carries.
C6_RefetchAfterMutation ==
    /\ [](\A s \in Slots :
            LET c == calls[s]
            IN  c.kind \in Mutations /\ c.out # "invalid" =>
                  /\ c.reqs[1].method \in {"POST", "PUT", "DELETE"}
                  /\ c.pc = "mutate" => Len(c.reqs) = 1
                  /\ c.pc = "refetch" => Len(c.reqs) = 2 /\ c.reqs[2] \in Refetches(c.kind)
                  /\ c.pc = "settled" /\ c.out = "ok" =>
                        Len(c.reqs) = 2 /\ c.reqs[2] \in Refetches(c.kind)
                  /\ c.pc = "settled" /\ c.out = "failed" => Len(c.reqs) = 1)
    /\ [][\A slice \in Slices :
            ui'[slice] # ui[slice] =>
               /\ ui'[slice] \in Fetched(slice)
               /\ \E s \in Fetching(slice) : calls'[s].pc = "settled"
         ]_vars

\* an item of an order guide has been deleted and the guide refetched
C6_Witness ==
    /\ \E s \in Slots :
          /\ calls[s].kind = "deleteVendorItem"
          /\ calls[s].pc = "settled" /\ calls[s].out = "ok"
    /\ ui.notice = "Item deleted."
    /\ Len(ui.vendorItems) = 2

Saves == {"saveVendor", "saveVendorItem", "saveRecipe"}

\* the request the claim expects of a save: POST to the collection for an entity
\* without an id key, PUT to the entity for one with an id key
ExpectedSave(c) ==
    LET entity == Val(c.sent)
        collection == IF c.kind = "saveVendor" THEN "/api/vendors"
                      ELSE IF c.kind = "saveRecipe" THEN "/api/recipes"
                      ELSE "/api/vendors/" \o ToString(Val(c.guide).id) \o "/items"
        member == IF c.kind = "saveVendor" THEN "/api/vendors/"
                  ELSE IF c.kind = "saveRecipe" THEN "/api/recipes/"
                  ELSE "/api/vendors/items/"
    IN  IF Has(entity, "id") THEN Req("PUT", member \o ToString(entity.id))
        ELSE Req("POST", collection)

\* C8: a save of a vendor, a vendor item or a recipe issues POST to the
\* collection when the entity has no id field and PUT to the entity when it has
\* one, whatever the id is (0 included).
C8_IdPresenceDecidesVerb ==
    \A s \in Slots :
        calls[s].kind \in Saves /\ calls[s].pc = "mutate" =>
            calls[s].reqs[1] = ExpectedSave(calls[s])

---------------------------------------------------------------------------
(* Claims about the settings tab *)

\* every key of cfg outside rep is a key of body with the same value
Kept(cfg, body, rep) ==
    cfg.t = "object" =>
        /\ body.t = "object"
        /\ \A k \in DOMAIN cfg.fields \ rep :
              k \in DOMAIN body.fields /\ body.fields[k] = cfg.fields[k]

\* body has no key outside rep that cfg does not have
OnlyWritten(cfg, body, rep) ==
    /\ body.t = "object"
    /\ DOMAIN body.fields \subseteq (IF cfg.t = "object" THEN DOMAIN cfg.fields ELSE {}) \cup rep

Framed(cfg, body, rep) == Kept(cfg, body, rep) /\ OnlyWritten(cfg, body, rep)

\* C7: the body of the PUT that saveSettings sends keeps every key of the
\* last-fetched config that the draft does not represent, at the top level, under
\* ollama and under rag and its sections, with its value, and has no key besides
\* those and the nine fields of the draft with their containers.
C7_SavePreservesOtherKeys ==
    [][\A s \in Slots :
          ( /\ calls'[s] # calls[s]
            /\ calls'[s].kind = "saveSettings"
            /\ calls'[s].pc = "put" )
          => /\ calls'[s].reqs = <<PutConfig>>
             /\ ~IsNull(ui.configData)
             /\ LET cfg == Val(ui.configData)
                    body == Val(calls'[s].sent)
                IN  /\ Framed(cfg, body, {"ollama", "rag"})
                    /\ Framed(Get(cfg, "ollama"), Get(body, "ollama"),
                              {"model", "temperature", "max_tokens"})
                    /\ Framed(Get(cfg, "rag"), Get(body, "rag"),
                              {"top_k", "enabled", "ocr", "image_processing", "vision"})
                    /\ Framed(Get(Get(cfg, "rag"), "ocr"), Get(Get(body, "rag"), "ocr"),
                              {"enabled"})
                    /\ Framed(Get(Get(cfg, "rag"), "image_processing"),
                              Get(Get(body, "rag"), "image_processing"), {"extract_images"})
                    /\ Framed(Get(Get(cfg, "rag"), "vision"), Get(Get(body, "rag"), "vision"),
                              {"enabled", "model"})
      ]_vars

\* a save of an edited draft is in flight whose body still carries the keys of
\* the loaded config that the panel does not show
C7_Witness ==
    \E s \in Slots :
        /\ calls[s].kind = "saveSettings" /\ calls[s].pc = "put"
        /\ ui.configData = Some(FullConfig)
        /\ LET body == Val(calls[s].sent)
           IN  /\ Get(Get(body, "ollama"), "model") = Str("mistral:7b")
               /\ Get(Get(body, "ollama"), "base_url") = Str("http://localhost:11434")
               /\ Get(Get(body, "rag"), "chunk_size") = Num("512")
               /\ Get(Get(Get(body, "rag"), "ocr"), "lang") = Str("eng")
               /\ Get(body, "telegram") = Obj([token |-> Str("secret")])

---------------------------------------------------------------------------
(* Claims about local validation *)

\* the slots in which this step starts an invocation of a handler
Started(kind) ==
    {s \in Slots : ~InFlight(calls[s]) /\ calls'[s] # calls[s] /\ calls'[s].kind = kind}

\* this step is the invocation in slot s ending at its validation, with message
\* in the error slot: no request, no other write to the state, no other handler
\* touched
RejectedLocally(s, message) ==
    /\ calls'[s].pc = "settled" /\ calls'[s].out = "invalid"
    /\ calls'[s].reqs = <<>>
    /\ \A t \in Slots \ {s} : calls'[t] = calls[t]
    /\ ui' = [ui EXCEPT !.error = message, !.notice = ""]

\* C9: an upload started with no file selected, and a draft generation started
\* with an empty context, put their message in the error slot (for the upload
\* 'Select a file before ingestion.'), issue no request and change nothing else:
\* the processing flag and every other slice stay as they were.
C9_MissingInputLocalError ==
    [][ /\ \A s \in Started("uploadKnowledgeSource") :
              IF IsNull(ui.uploadFile)
              THEN RejectedLocally(s, "Select a file before ingestion.")
              ELSE calls'[s].out # "invalid"
        /\ \A s \in Started("generateDraft") :
              IF IsNull(ui.editingDraft) \/ Val(ui.editingDraft).context = ""
              THEN RejectedLocally(s, "Please enter order details first.")
              ELSE calls'[s].out # "invalid"
      ]_vars

\* an upload without a file has been rejected while a draft generation is in
\* flight: the error is set and the processing flag is still raised
C9_Witness ==
    /\ \E s \in Slots :
          /\ calls[s].kind = "uploadKnowledgeSource"
          /\ calls[s].out = "invalid" /\ calls[s].reqs = <<>>
    /\ \E s \in Slots : calls[s].kind = "generateDraft" /\ calls[s].pc = "post"
    /\ ui.error = "Select a file before ingestion."
    /\ ui.processingAction

---------------------------------------------------------------------------
(* The load functions under the effects and the poll timer *)

LoadTabs ==
    {"autonomy", "sessions", "knowledge", "vendors", "inventory", "recipes", "settings", "about"}

LoadNext ==
    \/ mount
    \/ Mounted /\ tick
    \/ Mounted /\ \E tab \in LoadTabs : visitTab(tab)
    \/ \E i \in 1..2 : CanCall /\ openOrderGuide(i)
    \/ \E id \in SessionIds : selectSession(id)
    \/ \E s \in Slots, r \in StatusResponses \cup FailResponses : loadStatusResume(s, r)
    \/ \E s \in Slots, r \in LogResponses \cup FailResponses : loadLogsResume(s, r)
    \/ \E s \in Slots, r \in AutonomyStatusResponses \cup FailResponses :
          loadAutonomyStatusResume(s, r)
    \/ \E s \in Slots, r \in AutonomyLogResponses \cup FailResponses :
          loadAutonomyLogsResume(s, r)
    \/ \E s \in Slots, r \in SessionResponses \cup FailResponses : loadSessionsResume(s, r)
    \/ \E s \in Slots : \E r \in MessageResponses(calls[s].arg) \cup FailResponses :
          loadSessionMessagesResume(s, r)
    \/ \E s \in Slots, r \in KnowledgeResponses \cup FailResponses : loadKnowledgeResume(s, r)
    \/ \E s \in Slots, r \in ShortVendorResponses \cup FailResponses : loadVendorsResume(s, r)
    \/ \E s \in Slots, r \in ItemResponses \cup FailResponses : loadVendorItemsResume(s, r)
    \/ \E s \in Slots, r \in InventoryResponses \cup FailResponses :
          loadInventorySheetsResume(s, r)
    \/ \E s \in Slots, r \in RecipeResponses \cup FailResponses : loadRecipesResume(s, r)
    \/ \E s \in Slots, r \in {OkJson([status |-> "ok", config |-> SparseConfig])} \cup FailResponses :
          loadConfigResume(s, r)
    \/ \E s \in Slots, r \in AboutResponses \cup FailResponses : loadAboutResume(s, r)

\* App from its mount on: the poll timer, one visit to a tab, and every load
LoadSpec == Init /\ [][LoadNext]_vars

\* the message a load function puts before err.message in its catch block
LoadFailure ==
    [ loadStatus          |-> "Status load failed: ",
      loadLogs            |-> "Logs load failed: ",
      loadAutonomyStatus  |-> "Autonomy status failed: ",
      loadAutonomyLogs    |-> "Autonomy logs failed: ",
      loadSessions        |-> "Sessions load failed: ",
      loadSessionMessages |-> "Session messages load failed: ",
      loadKnowledge       |-> "Knowledge load failed: ",
      loadConfig          |-> "Config load failed: ",
      loadVendors         |-> "Vendors load failed: ",
      loadVendorItems     |-> "Items load failed: ",
      loadRecipes         |-> "Recipes load failed: ",
      loadInventorySheets |-> "Inventory sheets load failed: ",
      loadAbout           |-> "System info load failed: " ]

\* the slots in which a load function ends in this step, with outcome out
LoadEnds(out) ==
    {s \in Slots : /\ calls[s].kind \in DOMAIN LoadFailure
                   /\ calls[s].pc = "get"
                   /\ calls'[s].pc = "settled"
                   /\ calls'[s].out = out}

\* the state but for the flash slot
Data(u) == [u EXCEPT !.error = "", !.notice = ""]

\* C11: when the fetch of one domain fails, the step changes nothing but the
\* flash slot, which then holds the load's error message: the slice of that
\* domain and every other slice keep their content, and every other fetch in
\* flight stays in flight, to be applied when its response arrives.
C11_FailedLoadWritesOnlyFlash ==
    [][\A s \in LoadEnds("failed") :
          /\ Data(ui') = Data(ui)
          /\ ui'.error = LoadFailure[calls[s].kind] \o calls'[s].err
          /\ ui'.notice = ""
          /\ \A t \in Slots \ {s} : calls'[t] = calls[t]]_vars

\* the status fetch of a poll tick has failed, and the log fetch of the same
\* tick was applied after it
C11_Witness ==
    \E s, t \in Slots :
        /\ calls[s].kind = "loadStatus" /\ calls[s].via = "poll" /\ calls[s].out = "failed"
        /\ calls[t].kind = "loadLogs" /\ calls[t].via = "poll" /\ calls[t].out = "ok"
        /\ ui.statusData = defaultStatus
        /\ ui.logs = ItemsOr(calls[t].payload, "items")
        /\ ui.logs # << >>
        /\ ui.error = LoadFailure.loadStatus \o calls[s].err

---------------------------------------------------------------------------
(* The poll timer from mount to teardown *)

PollTabs == {"overview", "knowledge"}

PollNext ==
    \/ mount
    \/ tick
    \/ unmount
    \/ Mounted /\ \E tab \in PollTabs : selectTab(tab)
    \/ Mounted /\ ui.activeTab = "overview" /\ \E level \in {"all", "errors"} : selectLogFilter(level)
    \/ Mounted /\ \E s \in Slots, r \in StatusResponses : loadStatusResume(s, r)
    \/ Mounted /\ \E s \in Slots, r \in LogResponses : loadLogsResume(s, r)
    \/ Mounted /\ \E s \in Slots, r \in KnowledgeResponses : loadKnowledgeResume(s, r)

\* App from its mount to its teardown: the poll timer, the tab buttons, the
\* filter buttons of the diagnostic log
PollSpec == Init /\ [][PollNext]_vars

\* the invocations that start in this step, called from origin via
StartedVia(via) ==
    {s \in Slots : calls'[s] # calls[s] /\ calls'[s].pc = "get" /\ calls'[s].via = via}

\* the load function of each tab's primary data set
PrimaryLoad ==
    [ overview  |-> "loadLogs",
      autonomy  |-> "loadAutonomyStatus",
      sessions  |-> "loadSessions",
      knowledge |-> "loadKnowledge",
      vendors   |-> "loadVendors",
      inventory |-> "loadInventorySheets",
      recipes   |-> "loadRecipes",
      settings  |-> "loadConfig",
      about     |-> "loadAbout" ]

\* C12: every poll tick issues a status fetch, and a fetch of the primary data
\* set of the tab that is active, for every tab that has one.
C12_TickFetchesStatusAndActiveTab ==
    [][StartedVia("poll") # {} =>
          /\ \E s \in StartedVia("poll") : calls'[s].reqs = <<GetStatus>>
          /\ ui.activeTab \in DOMAIN PrimaryLoad =>
                \E s \in StartedVia("poll") : calls'[s].kind = PrimaryLoad[ui.activeTab]]_vars

\* C13: at most one poll timer is live at any moment, and it is the one
\* installed by the latest render: a change of the active tab or of the log
\* filter clears the previous timer and installs a new one; teardown leaves no
\* timer, and after teardown no poll tick issues a request.
C13_OneTimerNoneAfterTeardown ==
    [][/\ Cardinality(ui'.timers) <= 1
       /\ ui'.unmounted => ui'.timers = {}
       /\ ui.unmounted => StartedVia("poll") = {}
       /\ (ui.timers # {} /\ ~ui'.unmounted) => ui'.timers = {Timer(ui')}]_vars

\* App was torn down on the knowledge tab with the log filter changed, after
\* the timer installed last had ticked
C13_Witness ==
    /\ ui.unmounted
    /\ ui.timers = {}
    /\ ui.activeTab = "knowledge"
    /\ ui.logFilter = "errors"
    /\ \E s \in Slots : calls[s].via = "poll" /\ calls[s].kind = "loadStatus"
    /\ \A s \in Slots : calls[s].kind # "loadLogs"

\* C14: every switch of the active tab, a switch back to the overview
\* included, issues in the same step a fetch of the primary data set of the
\* newly active tab.
C14_SwitchFetchesNewTab ==
    [][(ui'.activeTab # ui.activeTab /\ ui'.activeTab \in DOMAIN PrimaryLoad) =>
          \E s \in StartedVia("effect") : calls'[s].kind = PrimaryLoad[ui'.activeTab]]_vars

---------------------------------------------------------------------------
(* Overlapping fetches of one domain *)

SessionNext ==
    \/ mount
    \/ Mounted /\ tick
    \/ Mounted /\ visitTab("sessions")
    \/ \E id \in SessionIds : selectSession(id)
    \/ \E s \in Slots, r \in StatusResponses : loadStatusResume(s, r)
    \/ \E s \in Slots, r \in LogResponses : loadLogsResume(s, r)
    \/ \E s \in Slots, r \in SessionResponses : loadSessionsResume(s, r)
    \/ \E s \in Slots : \E r \in MessageResponses(calls[s].arg) \cup FailResponses :
          loadSessionMessagesResume(s, r)

\* the session list under the poll timer
SessionSpec == Init /\ [][SessionNext]_vars

\* C15: when fetches of one domain overlap, each response is applied in the
\* step in which it arrives, whichever request it answers; so after both have
\* resolved the slice holds the payload of the response that arrived last, and
\* no response is discarded as stale.
C15_LastResponseWins ==
    [][\A s \in LoadEnds("ok") :
          /\ calls[s].kind = "loadStatus" => ui'.statusData = calls'[s].payload
          /\ calls[s].kind = "loadSessionMessages" =>
                ui'.sessionMessages = ItemsOr(calls'[s].payload, "items")]_vars

\* session 2 is selected, the fetches of the messages of sessions 1 and 2 have
\* both resolved, and the list shows the messages of session 1
C15_Witness ==
    /\ ui.selectedSessionId = Some(2)
    /\ ui.sessionMessages = <<"message of session 1">>
    /\ \E s, t \in Slots :
          /\ calls[s].kind = "loadSessionMessages" /\ calls[s].arg = "1" /\ calls[s].out = "ok"
          /\ calls[t].kind = "loadSessionMessages" /\ calls[t].arg = "2" /\ calls[t].out = "ok"
    /\ \A s \in Slots : ~InFlight(calls[s])

---------------------------------------------------------------------------
(* Control actions triggered again while in flight *)

RetriggerNext ==
    \/ handleExecuteSequence
    \/ \E s \in Slots, r \in AckResponses \cup StatusResponses \cup LogResponses \cup FailResponses :
          handleExecuteSequenceResume(s, r)
    \/ \E action \in {"start", "stop", "restart"} : controlBot(action)
    \/ \E s \in Slots, r \in AckResponses \cup StatusResponses \cup LogResponses \cup FailResponses :
          controlBotResume(s, r)
    \/ \E action \in {"start", "stop"} : controlOllama(action)
    \/ \E s \in Slots, r \in AckResponses \cup StatusResponses \cup FailResponses :
          controlOllamaResume(s, r)

\* Execute Sequence and the toggle controls of the overview
RetriggerSpec == Init /\ [][RetriggerNext]_vars

ControlKinds == {"handleExecuteSequence", "controlBot", "controlOllama"}

\* C16: whatever is in flight and whatever the processing flag, Execute
\* Sequence, the bot switch, RESTART BOT and the Ollama switch can be invoked,
\* and the invocation issues its first request in the step of the click:
\* none is dropped, queued or rejected.
C16_NothingSerialized ==
    /\ [](CanCall =>
            /\ ENABLED handleExecuteSequence
            /\ ENABLED controlBot("restart")
            /\ ENABLED controlBot(IF ui.statusData.bot.running THEN "stop" ELSE "start")
            /\ ENABLED controlOllama(IF ui.statusData.ollama.running THEN "stop" ELSE "start"))
    /\ [][\A kind \in ControlKinds : \A s \in Started(kind) :
             /\ InFlight(calls'[s])
             /\ Len(calls'[s].reqs) = 1
             /\ calls'[s].reqs[1].method = "POST"
             /\ \A t \in Slots \ {s} : calls'[t] = calls[t]]_vars

\* two Execute Sequences are in flight, the second invoked while the first
\* had raised the processing flag
C16_Witness ==
    /\ ui.processingAction
    /\ \E s, t \in Slots :
          /\ s # t
          /\ calls[s].kind = "handleExecuteSequence" /\ calls[s].pc = "loadStatus"
          /\ calls[t].kind = "handleExecuteSequence" /\ calls[t].pc = "ollama_start"

---------------------------------------------------------------------------
(* Loads over what the client holds *)

ReplaceNext ==
    \/ mount
    \/ Mounted /\ tick
    \/ Mounted /\ handleManualOverride
    \/ Mounted /\ visitTab("knowledge")
    \/ \E s \in Slots, r \in StatusResponses \cup FailResponses : loadStatusResume(s, r)
    \/ \E s \in Slots, r \in LogResponses \cup FailResponses : loadLogsResume(s, r)
    \/ \E s \in Slots, r \in KnowledgeResponses \cup DoneResponses \cup FailResponses :
          loadKnowledgeResume(s, r)

\* status, diagnostic log and knowledge sources loaded by mount, poll and tab
\* visit, with rows the client appends to the log
ReplaceSpec == Init /\ [][ReplaceNext]_vars

\* C17: a successful load sets its slice to what the response carries and to
\* nothing else: the status to the payload, a list to the payload's items, or
\* to the empty list when the payload has none; rows the client had appended
\* to the log are gone after a successful log load.
C17_LoadReplacesSlice ==
    [][\A s \in LoadEnds("ok") :
          /\ calls[s].kind = "loadStatus" => ui'.statusData = calls'[s].payload
          /\ calls[s].kind = "loadLogs" =>
                ui'.logs = (IF Has(calls'[s].payload, "items")
                            THEN calls'[s].payload.items ELSE << >>)
          /\ calls[s].kind = "loadKnowledge" =>
                ui'.knowledge = (IF Has(calls'[s].payload, "items")
                                 THEN calls'[s].payload.items ELSE << >>)]_vars

\* Manual Override has appended a row and raised its notice, and a log load
\* whose payload has no item list has emptied the log since
C17_Witness ==
    /\ ui.notice = "Manual override noted in diagnostics."
    /\ ui.logs = << >>
    /\ ui.statusData # defaultStatus
    /\ \E s \in Slots :
          /\ calls[s].kind = "loadLogs" /\ calls[s].out = "ok"
          /\ ~Has(calls[s].payload, "items")

---------------------------------------------------------------------------
(* The log buffer at its full length *)

\* rows the client appends before a log page replaces the buffer
MaxAppends == 4

\* a page of n rows as /api/logs?lines=120 returns it, newest first
LogPage(n) == [i \in 1..n |-> "server row " \o ToString(i)]

LogPageLengths == {0, 1, LogCap - 1, LogCap}

LocalRows == {OverrideLogRow, ExecuteLogRow, EmergencyLogRow}

\* the rows of the buffer that the client appended
Appended(rows) == SelectSeq(rows, LAMBDA row : row \in LocalRows)

\* the buffer after a log load (573)
LogInit ==
    /\ \E n \in LogPageLengths : ui = [InitUi EXCEPT !.logs = LogPage(n)]
    /\ calls = [s \in Slots |-> Free]

\* appendClientLog (536-540) as Manual Override, Execute Sequence and
\* Emergency Stop call it (892, 898, 915)
append(message) ==
    /\ Len(Appended(ui.logs)) < MaxAppends
    /\ ui' = appendClientLog(ui, message)
    /\ UNCHANGED calls

LogNext == \E message \in LocalRows : append(message)

LogSpec == LogInit /\ [][LogNext]_vars

\* C18: the buffer never holds more than 120 rows, and each append puts the
\* new row first, moves every row one place down in its order, and drops only
\* what falls beyond the 120th place, the oldest rows.
C18_CappedNewestFirst ==
    /\ [](Len(ui.logs) <= LogCap)
    /\ [][/\ ui'.logs[1] \in LocalRows
          /\ Len(ui'.logs) = (IF Len(ui.logs) < LogCap THEN Len(ui.logs) + 1 ELSE LogCap)
          /\ \A i \in 2..Len(ui'.logs) : ui'.logs[i] = ui.logs[i - 1]]_vars

\* a full page of 120 rows after two appends: two local rows first, then the
\* page down to its 118th row, the two oldest rows dropped
C18_Witness ==
    /\ Len(ui.logs) = LogCap
    /\ Len(Appended(ui.logs)) = 2
    /\ ui.logs[1] = EmergencyLogRow
    /\ ui.logs[2] = ExecuteLogRow
    /\ ui.logs[3] = "server row 1"
    /\ ui.logs[LogCap] = "server row 118"

---------------------------------------------------------------------------
(* apiRequest over the responses of the API *)

\* values of the detail and message fields of an error body: texts, the
\* empty text, a number, and a structured detail as request validation gives
FieldValues ==
    { Str("service busy"), Str("not found"), Str(""), Num("42"),
      Obj([msg |-> Str("field required")]) }

\* JSON bodies: objects with or without detail and message, and null
JsonBodies ==
    {Obj(f) : f \in UNION {[keys -> FieldValues] : keys \in SUBSET {"detail", "message"}}}
    \cup {JNull}

BodyTexts == {"", "Bad Gateway", "Internal Server Error"}

\* a rejected fetch, and responses with either status class and either kind of body
ApiResponses ==
    {Resp(FALSE, FALSE, FALSE, NoBody, "")}
    \cup {Resp(TRUE, ok, TRUE, body, "") : ok \in BOOLEAN, body \in JsonBodies}
    \cup {Resp(TRUE, ok, FALSE, NoBody, text) : ok \in BOOLEAN, text \in BodyTexts}

\* apiRequest (348-365) awaiting the response r of its fetch
AwaitingFetch(r) == [Free EXCEPT !.kind = "apiRequest", !.pc = "fetch", !.sent = Some(r)]

RequestInit ==
    /\ ui = InitUi
    /\ \E r \in ApiResponses : calls = [s \in Slots |-> IF s = 1 THEN AwaitingFetch(r) ELSE Free]

\* apiRequest returns or throws; the call keeps the response it got
apiRequestEnds(s) ==
    LET c == calls[s]
        o == apiRequest(Val(c.sent))
    IN  /\ c.kind = "apiRequest"
        /\ c.pc = "fetch"
        /\ calls' = [calls EXCEPT ![s] =
                        IF o.threw
                        THEN [c EXCEPT !.pc = "settled", !.out = "failed", !.err = o.message]
                        ELSE [c EXCEPT !.pc = "settled", !.out = "ok", !.payload = o.payload]]
        /\ UNCHANGED ui

RequestNext == \E s \in Slots : apiRequestEnds(s)

RequestSpec == RequestInit /\ [][RequestNext]_vars

\* a field of a JSON body as the body carries it
AsCarried(v) ==
    CASE v.t \in {"string", "number"} -> v.text
      [] v.t = "boolean"              -> IF v.b THEN "true" ELSE "false"
      [] v.t = "object"               ->
            LET key == CHOOSE k \in DOMAIN v.fields : TRUE
            IN  "{\"" \o key \o "\":\"" \o v.fields[key].text \o "\"}"
      [] OTHER                        -> v.t

\* the body has the field, and not as the empty text
Present(body, key) ==
    /\ body.t = "object"
    /\ key \in DOMAIN body.fields
    /\ body.fields[key] # Str("")

\* C19: apiRequest returns the payload of a 2xx response; for any other
\* response it throws, with the body text for a body that is not JSON, and for
\* a JSON body with its detail field if the body has one, else with its
\* message field if it has one, else with 'Request failed'.
C19_ThrownMessageIsDetail ==
    \A s \in Slots :
        (calls[s].kind = "apiRequest" /\ calls[s].pc = "settled" /\ Val(calls[s].sent).net) =>
            LET r == Val(calls[s].sent)
            IN  IF r.ok
                THEN /\ calls[s].out = "ok"
                     /\ IF r.json THEN calls[s].payload = r.body ELSE calls[s].payload = r.text
                ELSE /\ calls[s].out = "failed"
                     /\ calls[s].err =
                           (IF ~r.json THEN r.text
                            ELSE IF Present(r.body, "detail") THEN AsCarried(r.body.fields.detail)
                            ELSE IF Present(r.body, "message") THEN AsCarried(r.body.fields.message)
                            ELSE "Request failed")

---------------------------------------------------------------------------
(* Failures of the operator's actions *)

FailureNext ==
    \/ \E action \in {"start", "restart"} : controlBot(action)
    \/ \E s \in Slots, r \in AckResponses \cup StatusResponses \cup LogResponses \cup FailResponses :
          controlBotResume(s, r)
    \/ \E action \in {"start", "stop"} : controlOllama(action)
    \/ \E s \in Slots, r \in AckResponses \cup StatusResponses \cup FailResponses :
          controlOllamaResume(s, r)
    \/ \E tab \in {"test-lab", "vendors", "knowledge"} : visitTab(tab)
    \/ \E s \in Slots, r \in KnowledgeResponses \cup FailResponses : loadKnowledgeResume(s, r)
    \/ \E file \in {Null, Some("menu.pdf")} : selectUploadFile(file)
    \/ uploadKnowledgeSource
    \/ \E s \in Slots, r \in UploadResponses \cup KnowledgeResponses \cup FailResponses :
          uploadKnowledgeSourceResume(s, r)
    \/ \E file \in {Null, Some("order.wav")} : selectAudioFile(file)
    \/ runBrainTest
    \/ \E s \in Slots, r \in BrainResponses \cup FailResponses : runBrainTestResume(s, r)
    \/ runTranscriptionTest
    \/ \E s \in Slots, r \in TranscribeResponses \cup FailResponses :
          runTranscriptionTestResume(s, r)
    \/ \E s \in Slots, r \in ShortVendorResponses \cup FailResponses : loadVendorsResume(s, r)
    \/ \E i \in 1..1 : openComposer(i)
    \/ \E text \in {"", "5kg salmon"} : editDraftContext(text)
    \/ generateDraft
    \/ \E s \in Slots, r \in DraftResponses \cup BareDraftResponses \cup FailResponses :
          generateDraftResume(s, r)
    \/ openMailClient

\* the bot controls, the test lab and the composer, with requests that fail
FailureSpec == Init /\ [][FailureNext]_vars

\* what an action puts before err.message in its catch block
ActionFailure(c) ==
    CASE c.kind \in DOMAIN LoadFailure      -> LoadFailure[c.kind]
      [] c.kind = "controlBot"              -> "Bot " \o c.arg \o " failed: "
      [] c.kind = "controlOllama"           -> "Ollama " \o c.arg \o " failed: "
      [] c.kind = "uploadKnowledgeSource"   -> "Ingestion failed: "
      [] c.kind = "runBrainTest"            -> "Brain test failed: "
      [] c.kind = "runTranscriptionTest"    -> "Transcription failed: "
      [] c.kind = "generateDraft"           -> "Draft generation failed: "
      [] c.kind = "openMailClient"          -> "Open mail client failed: "

\* the instruction an action shows when it finds its input missing
ValidationMessage ==
    [ uploadKnowledgeSource |-> "Select a file before ingestion.",
      runTranscriptionTest  |-> "Select an audio file first.",
      generateDraft         |-> "Please enter order details first.",
      openMailClient        |-> "Missing vendor email." ]

\* the invocations that end in this step with outcome out
HandlerEnds(out) ==
    {s \in Slots : calls'[s] # calls[s] /\ calls'[s].pc = "settled" /\ calls'[s].out = out}

\* what can follow the name of the action in an error message
FailureTexts ==
    {NetworkError, "service busy"} \cup {ValidationMessage[k] : k \in DOMAIN ValidationMessage}

---------------------------------------------------------------------------
(* Requests after a failure *)

RetryNext ==
    \/ mount
    \/ Mounted /\ tick
    \/ \E s \in Slots, r \in StatusResponses \cup FailResponses : loadStatusResume(s, r)
    \/ \E s \in Slots, r \in LogResponses \cup FailResponses : loadLogsResume(s, r)
    \/ Mounted /\ controlBot("restart")
    \/ \E s \in Slots, r \in AckResponses \cup StatusResponses \cup LogResponses \cup FailResponses :
          controlBotResume(s, r)
    \/ Mounted /\ \E action \in {"start", "stop"} : controlOllama(action)
    \/ \E s \in Slots, r \in AckResponses \cup StatusResponses \cup FailResponses :
          controlOllamaResume(s, r)
    \/ Mounted /\ handleExecuteSequence
    \/ \E s \in Slots, r \in AckResponses \cup StatusResponses \cup LogResponses \cup FailResponses :
          handleExecuteSequenceResume(s, r)

\* the overview under the poll timer, with the control actions of the operator
RetrySpec == Init /\ [][RetryNext]_vars

\* the request an invocation issued last
LastRequest(call) == call.reqs[Len(call.reqs)]

\* the slots whose invocation issues a request in this step
Issuing ==
    {s \in Slots : /\ InFlight(calls'[s])
                   /\ ~InFlight(calls[s]) \/ calls'[s].reqs # calls[s].reqs}

\* a request with which an invocation has ended in its catch block
HasFailed(q) ==
    \E t \in Slots : /\ calls[t].out = "failed"
                     /\ calls[t].reqs # << >>
                     /\ LastRequest(calls[t]) = q

\* what a new invocation is called from: a control of the operator (a handler,
\* a click, an effect of the render that follows), or the interval callback
OperatorOrigins == {"", "click", "effect", "handleEmergencyStop"}

\* this step issues nothing that the issuing invocation has issued before
NoneIssuedTwice ==
    \A s \in Issuing :
        InFlight(calls[s]) =>
            \A i \in 1..Len(calls[s].reqs) : calls[s].reqs[i] # LastRequest(calls'[s])

\* C21: no invocation issues a request a second time, and a request that has
\* failed is issued again only by an invocation that an action of the operator
\* has started: no step issues it from anywhere else.
C21_ReissuedOnlyByOperator ==
    [][/\ NoneIssuedTwice
       /\ \A s \in Issuing :
             HasFailed(LastRequest(calls'[s])) => calls'[s].via \in OperatorOrigins]_vars

\* C21 (as the program has it): no invocation issues a request a second time,
\* so a failed request ends its attempt; a request that has failed is issued
\* again only by an invocation that the operator has started or by the next
\* tick of the poll timer, which fires whatever the outcome of earlier fetches.
C21_ReissuedByOperatorOrPoll ==
    [][/\ NoneIssuedTwice
       /\ \A s \in Issuing :
             HasFailed(LastRequest(calls'[s])) =>
                 calls'[s].via \in OperatorOrigins \cup {"poll"}]_vars

\* a status fetch has failed, the poll timer has issued it again, and a
\* RESTART BOT is in flight
C21_Witness ==
    /\ ui.error = "Status load failed: " \o NetworkError
    /\ \E t, v \in Slots :
          /\ calls[t].kind = "loadStatus" /\ calls[t].via = "poll" /\ calls[t].pc = "get"
          /\ calls[v].kind = "controlBot" /\ calls[v].pc = "post"
    /\ \A s \in Slots : calls[s].via # "effect"

---------------------------------------------------------------------------
(* Errors in the views mounted on a tab *)

ViewTabs == {"menu-engineering", "prep-list", "inventory"}

\* the operator returns to the overview once the requests of the view have settled
leaveView ==
    /\ ui.activeTab \in ViewTabs
    /\ \A s \in Slots : ~InFlight(calls[s])
    /\ selectTab("overview")

ViewNext ==
    \/ ~ui.unmounted /\ \E tab \in ViewTabs : visitTab(tab)
    \/ ~ui.unmounted /\ leaveView
    \/ ~ui.unmounted /\ \E s \in Slots, r \in MenuResponses \cup FailResponses :
                            menuEngineeringResume(s, r)
    \/ ~ui.unmounted /\ \E s \in Slots, r \in PrepRecipeResponses \cup FailResponses :
                            prepLoadDataResume(s, r)
    \/ ~ui.unmounted /\ \E mode \in {"audit", "plan"} : setMode(mode)
    \/ ~ui.unmounted /\ saveCounts
    \/ ~ui.unmounted /\ \E s \in Slots, r \in AckResponses \cup FailResponses :
                            saveCountsResume(s, r)
    \/ ~ui.unmounted /\ \E s \in Slots, r \in InventoryResponses \cup FailResponses :
                            loadInventorySheetsResume(s, r)
    \/ ~ui.unmounted /\ toggleCountingMode

\* the menu engineering, prep list and inventory tabs, visited from the overview
ViewSpec == Init /\ [][ViewNext]_vars

\* the slots whose invocation ends in this step with an error thrown
EndsThrowing ==
    {s \in Slots : InFlight(calls[s]) /\ calls'[s].pc = "settled" /\ calls'[s].err # ""}

\* C22: every invocation that ends with an error ends in a catch block that
\* puts a message carrying the error in the shared error slot, and no error
\* thrown while rendering ever unmounts the application.
C22_EveryErrorCaughtAndShown ==
    /\ [][\A s \in EndsThrowing :
             /\ calls'[s].out = "failed"
             /\ ui'.notice = ""
             /\ \E prefix \in {LoadFailure[k] : k \in DOMAIN LoadFailure}
                              \cup {"Menu engineering load failed: ", "Prep list load failed: ",
                                    "Prep update failed: "} :
                   ui'.error = prefix \o calls'[s].err]_vars
    /\ [](ui.renderError = "" /\ ~ui.unmounted)

---------------------------------------------------------------------------
(* Clearing the history of a session *)

ClearNext ==
    \/ visitTab("sessions")
    \/ \E id \in SessionIds : selectSession(id)
    \/ \E s \in Slots, r \in SessionResponses \cup FailResponses : loadSessionsResume(s, r)
    \/ \E s \in Slots : \E r \in MessageResponses(calls[s].arg) \cup FailResponses :
          loadSessionMessagesResume(s, r)
    \/ clearSelectedSession
    \/ \E s \in Slots : \E r \in ClearResponses \cup SessionResponses
                                  \cup MessageResponses(calls[s].arg) \cup FailResponses :
          clearSelectedSessionResume(s, r)

\* the session panel: the list, the selection, the messages and CLEAR HISTORY
ClearSpec == Init /\ [][ClearNext]_vars

\* the slots whose clearSelectedSession leaves position pc in this step
ClearLeaves(pc) ==
    {s \in Slots : /\ calls[s].kind = "clearSelectedSession"
                   /\ calls[s].pc = pc
                   /\ calls'[s] # calls[s]}

---------------------------------------------------------------------------
(* The filter buttons of the diagnostic log *)

FilterLevels == {"all", "warnings", "errors"}

\* the page /api/logs returns for a level
LevelPage(level) == OkJson([status |-> "ok", items |-> <<level \o " row">>])

\* the level a suspended loadLogs asked for (570)
RequestedLevel(call) == logLevel(call.arg, call.logFilter)

FilterNext ==
    \/ mount
    \/ Mounted /\ tick
    \/ Mounted /\ \E level \in FilterLevels : selectLogFilter(level)
    \/ \E s \in Slots, r \in StatusResponses : loadStatusResume(s, r)
    \/ \E s \in Slots : loadLogsResume(s, LevelPage(RequestedLevel(calls[s])))

\* the overview with its filter buttons, every request answered, every log
\* request with the page of the level it asked for
FilterSpec == Init /\ [][FilterNext]_vars

\* C24: when no log request is in flight and the operator has clicked a filter
\* button, the log buffer holds the page of the level the filter shows.
C24_BufferMatchesFilter ==
    (/\ \A s \in Slots : calls[s].kind = "loadLogs" => ~InFlight(calls[s])
     /\ \E s \in Slots : calls[s].kind = "loadLogs" /\ calls[s].via = "click")
        => ui.logs = LevelPage(ui.logFilter).body.items

---------------------------------------------------------------------------
(* The selected session under overlapping loads of the session list *)

ReselectNext ==
    \/ visitTab("sessions")
    \/ ui.activeTab = "sessions" /\ selectTab("overview")
    \/ \E id \in SessionIds : selectSession(id)
    \/ \E s \in Slots, r \in SessionResponses : loadSessionsResume(s, r)
    \/ \E s \in Slots : \E r \in MessageResponses(calls[s].arg) : loadSessionMessagesResume(s, r)

\* the sessions tab entered and left at will, every request answered
ReselectSpec == Init /\ [][ReselectNext]_vars

\* C25: a step in which a load of the session list ends changes the selected
\* session only when none is selected: a selection that exists, whenever the
\* operator made it, is kept.
C25_LoadKeepsSelection ==
    [][\A s \in LoadEnds("ok") :
          (calls[s].kind = "loadSessions" /\ ~IsNull(ui.selectedSessionId))
              => ui'.selectedSessionId = ui.selectedSessionId]_vars

---------------------------------------------------------------------------
(* The panels of the vendors tab *)

PanelNext ==
    \/ visitTab("vendors")
    \/ \E s \in Slots, r \in VendorResponses : loadVendorsResume(s, r)
    \/ \E i \in 1..2 : openComposer(i)
    \/ editDraftContext("2 cases of lemons")
    \/ cancelComposer
    \/ generateDraft
    \/ \E s \in Slots, r \in DraftResponses \cup FailResponses : generateDraftResume(s, r)
    \/ newVendor
    \/ \E i \in 1..2 : editVendor(i)
    \/ cancelVendor
    \/ \E i \in 1..2 : openOrderGuide(i)
    \/ \E s \in Slots, r \in ItemResponses : loadVendorItemsResume(s, r)
    \/ closeOrderGuide

\* the vendor list with its editor, its composer and its order guide
PanelSpec == Init /\ [][PanelNext]_vars

\* the panels of the vendors tab that are open
OpenPanels(u) ==
    {p \in {"editingVendor", "editingDraft", "activeVendorForItems"} : ~IsNull(u[p])}

\* C26: at most one of the vendor editor, the composer and the order guide is
\* open in every state, and the composer goes from closed to open only in a
\* step of the operator's Compose Email button, never in a step in which a
\* response arrives.
C26_OnePanelComposerStaysClosed ==
    /\ [](Cardinality(OpenPanels(ui)) <= 1)
    /\ [][(IsNull(ui.editingDraft) /\ ~IsNull(ui'.editingDraft)) => calls' = calls]_vars

---------------------------------------------------------------------------
(* The editors of the vendors and recipes tabs when a save is rejected *)

SaveNext ==
    \/ \E tab \in {"vendors", "recipes"} : visitTab(tab)
    \/ \E s \in Slots, r \in VendorResponses \cup FailResponses : loadVendorsResume(s, r)
    \/ newVendor
    \/ \E i \in 1..2 : editVendor(i)
    \/ cancelVendor
    \/ saveVendor
    \/ \E s \in Slots, r \in AnyResponse : saveVendorResume(s, r)
    \/ \E i \in 1..2 : openOrderGuide(i)
    \/ \E s \in Slots, r \in ItemResponses \cup FailResponses : loadVendorItemsResume(s, r)
    \/ closeOrderGuide
    \/ newItem
    \/ cancelItem
    \/ saveVendorItem
    \/ \E s \in Slots, r \in AnyResponse : saveVendorItemResume(s, r)
    \/ \E s \in Slots, r \in RecipeResponses \cup FailResponses : loadRecipesResume(s, r)
    \/ newRecipe
    \/ cancelRecipe
    \/ saveRecipe
    \/ \E s \in Slots, r \in AnyResponse : saveRecipeResume(s, r)

\* the vendor, item and recipe editors with their save buttons
SaveSpec == Init /\ [][SaveNext]_vars

\* the editor a save handler closes, the list it refetches, and the prefix of
\* its failure message
SaveOf ==
    [ saveVendor     |-> [ editor |-> "editingVendor", slice |-> "vendors",
                           prefix |-> "Save vendor failed: " ],
      saveVendorItem |-> [ editor |-> "editingItem", slice |-> "vendorItems",
                           prefix |-> "Save item failed: " ],
      saveRecipe     |-> [ editor |-> "editingRecipe", slice |-> "recipes",
                           prefix |-> "Save recipe failed: " ] ]

\* the slots whose save handler resumes in this step
SaveResumes == {s \in Slots : calls[s].kind \in Saves /\ calls'[s] # calls[s] /\ InFlight(calls[s])}

\* C27: the step in which the save request of saveVendor, saveVendorItem or
\* saveRecipe is rejected leaves the editor and the list as they are, issues
\* no request and puts the prefixed message in the error slot; the step in
\* which it succeeds leaves the state as it is and issues the refetch; the
\* step in which the refetch ends closes the editor; and an open editor is
\* closed in no other step of a handler.
C27_RejectedSaveKeepsEditor ==
    [][/\ \A s \in SaveResumes :
             LET of == SaveOf[calls[s].kind]
             IN  \/ /\ calls[s].pc = "mutate"
                    /\ calls'[s].out = "failed"
                    /\ calls'[s].reqs = calls[s].reqs
                    /\ ui'[of.editor] = ui[of.editor]
                    /\ ui'[of.slice] = ui[of.slice]
                    /\ ui'.error = of.prefix \o calls'[s].err
                    /\ ui'.notice = ""
                 \/ /\ calls[s].pc = "mutate"
                    /\ calls'[s].pc = "refetch"
                    /\ Len(calls'[s].reqs) = 2
                    /\ ui' = ui
                 \/ /\ calls[s].pc = "refetch"
                    /\ calls'[s].pc = "settled"
                    /\ IsNull(ui'[of.editor])
       /\ \A kind \in Saves :
             (~IsNull(ui[SaveOf[kind].editor]) /\ IsNull(ui'[SaveOf[kind].editor])) =>
                 \/ calls' = calls
                 \/ \E s \in SaveResumes : calls[s].kind = kind /\ calls[s].pc = "refetch"]_vars

\* the save of a new vendor was rejected by the API: the editor is open with
\* the draft that was sent, the list is the one loaded before, and the error
\* names the action
C27_Witness ==
    \E s \in Slots :
        /\ calls[s].kind = "saveVendor" /\ calls[s].out = "failed"
        /\ Len(calls[s].reqs) = 1
        /\ calls[s].err = "service busy"
        /\ ui.editingVendor = Some(Blank)
        /\ Len(ui.vendors) = 2
        /\ ui.error = "Save vendor failed: service busy"

---------------------------------------------------------------------------
(* Execute Sequence when its reloads fail *)

\* the slots whose Execute Sequence leaves position pc in this step
SequenceLeaves(pc) ==
    {s \in Slots : /\ calls[s].kind = "handleExecuteSequence"
                   /\ calls[s].pc = pc
                   /\ calls'[s] # calls[s]}

\* C28: once both POSTs of an Execute Sequence have resolved, the status
\* reload either replaces the status or, failing, leaves it and raises its own
\* error, and the log reload follows in both cases; the step in which the log
\* reload ends, failed or not, ends the sequence with the notice 'Execute
\* sequence completed.', an empty error and the flag lowered, the log buffer
\* being a page of the API or, when the reload failed, what it was.
C28_CompletedDespiteFailedReload ==
    [][/\ \A s \in SequenceLeaves("loadStatus") :
             /\ calls'[s].pc = "loadLogs"
             /\ calls'[s].reqs = Append(calls[s].reqs, GetLogs("all"))
             /\ \/ /\ ui'.statusData \in {r.body : r \in StatusResponses}
                   /\ ui'.error = ui.error
                \/ /\ ui'.statusData = ui.statusData
                   /\ ui'.error \in {"Status load failed: " \o apiRequest(r).message :
                                        r \in FailResponses}
       /\ \A s \in SequenceLeaves("loadLogs") :
             /\ calls'[s].pc = "settled" /\ calls'[s].out = "ok"
             /\ ui'.notice = "Execute sequence completed."
             /\ ui'.error = ""
             /\ ~ui'.processingAction
             /\ ui'.statusData = ui.statusData
             /\ \/ ui'.logs \in {ItemsOr(r.body, "items") : r \in LogResponses}
                \/ ui'.logs = ui.logs]_vars

\* an Execute Sequence has ended as completed after both of its reloads
\* failed: the status is the initial one and the log holds the client's row
C28_Witness ==
    /\ ui.notice = "Execute sequence completed."
    /\ ui.error = ""
    /\ ~ui.processingAction
    /\ ui.statusData = defaultStatus
    /\ ui.logs = <<ExecuteLogRow>>
    /\ \E s \in Slots :
          /\ calls[s].kind = "handleExecuteSequence" /\ calls[s].out = "ok"
          /\ calls[s].reqs = <<PostOllama("start"), PostBot("restart"), GetStatus, GetLogs("all")>>
    /\ \A s \in Slots : ~InFlight(calls[s])

---------------------------------------------------------------------------
(* The config from its load to its save *)

\* the four switches of a config file: all off, all on, and one mixed setting
ConfigFlags == {<<FALSE, FALSE, FALSE, FALSE>>, <<TRUE, TRUE, TRUE, TRUE>>,
                <<TRUE, FALSE, TRUE, FALSE>>}

\* config files in which the nine fields of the settings panel are present,
\* next to keys the panel does not show
PresentConfigs ==
    { Obj([ ollama |-> Obj([ model |-> Str(model), temperature |-> Num(temperature),
                             max_tokens |-> Num(maxTokens),
                             base_url |-> Str("http://localhost:11434") ]),
            rag |-> Obj([ top_k |-> Num(topK), enabled |-> Bool(flags[1]),
                          chunk_size |-> Num("512"),
                          ocr |-> Obj([enabled |-> Bool(flags[2]), lang |-> Str("eng")]),
                          image_processing |-> Obj([extract_images |-> Bool(flags[3])]),
                          vision |-> Obj([enabled |-> Bool(flags[4]), model |-> Str(visionModel)]) ]),
            telegram |-> Obj([token |-> Str("secret")]) ]) :
        model \in {"llama3.1:8b", "mistral:7b"}, temperature \in {"0", "0.7"},
        maxTokens \in {"1000"}, topK \in {"0", "3"}, flags \in ConfigFlags,
        visionModel \in {"", "llava"} }

PresentConfigResponses == {OkJson([status |-> "ok", config |-> cfg]) : cfg \in PresentConfigs}

RoundTripNext ==
    \/ visitTab("settings")
    \/ \E s \in Slots, r \in PresentConfigResponses \cup FailResponses : loadConfigResume(s, r)
    \/ \E value \in DraftInputs["temperature"] : editConfigDraft("temperature", value)
    \/ saveSettings
    \/ \E s \in Slots : \E r \in SaveResponses(calls[s]) \cup StatusResponses \cup FailResponses :
          saveSettingsResume(s, r)

\* the settings tab with config files of every combination of the nine fields
RoundTripSpec == Init /\ [][RoundTripNext]_vars

---------------------------------------------------------------------------
(* The development launcher (src/unnamed/part_000, lines 1-40) *)

\* Under LauncherSpec ui holds the shell that runs the script (its position,
\* its variable API_PID, the background pid $!, what it found) and calls holds
\* the machine: the API processes that run, the pids handed out, the pids of
\* the processes the script started and the pids kill was sent to.

Signals == {"INT", "TERM"}

\* the shell before line 10, with API_PID unset
Shell(installed, modules) ==
    [ pc |-> "imports", API_PID |-> Null, background |-> Null, health |-> Null,
      installed |-> installed, node_modules |-> modules, status |-> Null, trapped |-> {} ]

\* an API process and who started it
Process(pid, by) == [pid |-> pid, by |-> by]

\* the pid the next background job gets: one no process of the machine has
FreshPid(m) == CHOOSE p \in 1..(Cardinality(m.pids) + 1) : p \notin m.pids

LauncherInit ==
    /\ \E installed \in BOOLEAN, modules \in BOOLEAN : ui = Shell(installed, modules)
    /\ \E before \in BOOLEAN :
          calls = [ running   |-> IF before THEN {Process(1, "operator")} ELSE {},
                    pids      |-> IF before THEN {1} ELSE {},
                    started   |-> {},
                    signalled |-> {} ]

\* a cleanup that kills whatever serves the API
cleanupKillsTheApi(u, m) ==
    [m EXCEPT !.signalled = @ \cup {q.pid : q \in m.running}, !.running = {}]

\* cleanup (14-18): kill "$API_PID" when API_PID is set and not empty
cleanup(u, m) ==
    IF IsNull(u.API_PID)
    THEN m
    ELSE [m EXCEPT !.signalled = @ \cup {Val(u.API_PID)},
                   !.running = {q \in @ : q.pid # Val(u.API_PID)}]

\* the script ends with a status: the EXIT trap of line 20 runs cleanup
exit(status) ==
    /\ ui' = [ui EXCEPT !.pc = "exited", !.status = Some(status), !.trapped = @ \cup {"EXIT"}]
    /\ calls' = cleanup(ui, calls)

\* lines 22-25: without fastapi and uvicorn the script prints a hint and exits 1
checkImports ==
    /\ ui.pc = "imports"
    /\ IF ui.installed
       THEN /\ ui' = [ui EXCEPT !.pc = "health"]
            /\ UNCHANGED calls
       ELSE exit(1)

\* line 27: curl -fsS .../api/health succeeds only if an API answers
healthCheck ==
    /\ ui.pc = "health"
    /\ \E ok \in (IF calls.running = {} THEN {FALSE} ELSE BOOLEAN) :
          ui' = [ui EXCEPT !.health = Some(ok), !.pc = IF ok THEN "frontend" ELSE "uvicorn"]
    /\ UNCHANGED calls

\* lines 28-29: uvicorn is started in the background
startApi ==
    /\ ui.pc = "uvicorn"
    /\ LET pid == FreshPid(calls)
       IN  /\ calls' = [calls EXCEPT !.running = @ \cup {Process(pid, "launcher")},
                                     !.pids = @ \cup {pid}, !.started = @ \cup {pid}]
           /\ ui' = [ui EXCEPT !.background = Some(pid), !.pc = "assign"]

\* line 30: API_PID=$!
assignPid ==
    /\ ui.pc = "assign"
    /\ ui' = [ui EXCEPT !.API_PID = ui.background, !.pc = "sleep"]
    /\ UNCHANGED calls

\* line 31: sleep 1
sleep ==
    /\ ui.pc = "sleep"
    /\ ui' = [ui EXCEPT !.pc = "frontend"]
    /\ UNCHANGED calls

\* lines 34-37: npm install when node_modules is missing; under set -e a
\* failed install ends the script
npmInstall ==
    /\ ui.pc = "frontend"
    /\ IF ui.node_modules
       THEN /\ ui' = [ui EXCEPT !.pc = "dev"]
            /\ UNCHANGED calls
       ELSE \/ /\ ui' = [ui EXCEPT !.pc = "dev", !.node_modules = TRUE]
               /\ UNCHANGED calls
            \/ exit(1)

\* line 40: the dev server runs until it ends, and the script with it
npmRunDev ==
    /\ ui.pc = "dev"
    /\ \E status \in {0, 1} : exit(status)

\* line 20: INT or TERM runs cleanup; the script then goes on where it was
trap(signal) ==
    /\ ui.pc # "exited"
    /\ signal \notin ui.trapped
    /\ ui' = [ui EXCEPT !.trapped = @ \cup {signal}]
    /\ calls' = cleanup(ui, calls)

\* the foreground command died of the signal too: cleanup runs for the signal
\* and, the script ending under set -e, again for EXIT
interrupted(signal) ==
    /\ ui.pc \in {"sleep", "frontend", "dev"}
    /\ signal \notin ui.trapped
    /\ ui' = [ui EXCEPT !.pc = "exited", !.status = Some(1),
                        !.trapped = @ \cup {signal, "EXIT"}]
    /\ calls' = cleanup(ui, cleanup(ui, calls))

\* an API process ends by itself (a crash, a port already bound, its operator)
processEnds(q) ==
    /\ q \in calls.running
    /\ calls' = [calls EXCEPT !.running = @ \ {q}]
    /\ UNCHANGED ui

LauncherNext ==
    \/ checkImports
    \/ healthCheck
    \/ startApi
    \/ assignPid
    \/ sleep
    \/ npmInstall
    \/ npmRunDev
    \/ \E signal \in Signals : trap(signal)
    \/ \E signal \in Signals : interrupted(signal)
    \/ \E q \in calls.running : processEnds(q)

\* one run of the launcher on a machine with or without an API already up
LauncherSpec == LauncherInit /\ [][LauncherNext]_vars

\* the API processes the launcher did not start
Foreign(m) == {q \in m.running : q.by # "launcher"}

====
